---- MODULE Spec2Model ----
(***************************************************************************)
(* Model of the resilient service client (agents/mcp_server_v2.py:         *)
(* get_weather, geocode_location) and of the Thought-Action-Observation    *)
(* loop (agents/agent1.py: run).                                           *)
(*                                                                         *)
(* One behaviour of SpecClient is one call of get_weather or of            *)
(* geocode_location; the remote service is the environment and answers     *)
(* every GET with a network exception or with a response (status, body).   *)
(* One behaviour of SpecRun is one call of run(question); the language     *)
(* model and the tools are the environment.                                *)
(* One behaviour of SpecWarm is one execution of scripts/warmup_model.py:  *)
(* main, with warm_models and its thread pool; the service that answers    *)
(* each request and the scheduling of the worker threads are the           *)
(* environment.                                                            *)
(* One behaviour of SpecCalc is one call of the calculator tool            *)
(* (agents/test_agent_reasoning.py, agents/vulnerable_agent.py) on one     *)
(* expression.                                                             *)
(* One behaviour of SpecConv is one call of currency_converter             *)
(* (agents/test_agent_reasoning.py); the two rate services are the         *)
(* environment.                                                            *)
(* One behaviour of SpecAgentWeather is one call of the get_weather tool of*)
(* agents/agent1.py; the weather service is the environment.               *)
(***************************************************************************)
EXTENDS Integers, Sequences, FiniteSets, TLC

VARIABLES
    fn,          \* the tool being called: "get_weather" | "geocode_location"
    pc,          \* position inside the call
    attempt,     \* loop variable of `for attempt in range(MAX_RETRIES)`
    last_error,  \* local variable last_error
    resp,        \* local variable resp (the response of the current attempt)
    exc,         \* the exception in flight in the current attempt ("" = none)
    sessions,    \* every requests.Session() made by the call, in order
    sleeps,      \* every time.sleep(d) made by the call, in order
    outcomes,    \* what the service did on each attempt, in order
    result,      \* what the call returned, or the exception it let escape
    jsonErrIsRequestException
                 \* whether the installed requests raises, from resp.json(),
                 \* a JSONDecodeError that is a RequestException
                 \* (requests >= 2.27) or a plain ValueError (older)

clientVars == <<fn, pc, attempt, last_error, resp, exc, sessions, sleeps,
                outcomes, result, jsonErrIsRequestException>>

VARIABLES
    rpc,         \* position inside run(question)
    i,           \* loop variable of `for i in range(max_iterations)`
    response,    \* local variable response: the model's reply, as tokens
    replies,     \* number of model replies received so far
    toolCalls,   \* number of tool invocations made so far
    observation, \* the outcome of the last tool invocation
    runResult    \* what run returned, or the exception it let escape

runVars == <<rpc, i, response, replies, toolCalls, observation, runResult>>

VARIABLES
    wpc,         \* position of the main thread inside main / warm_models
    reps,        \* args.reps
    concurrency, \* args.concurrency
    embed_model, \* whether args.embed_model is a non-empty string
    mi,          \* position in models of the loop variable m (0 = before)
    first,       \* per model: state of the sequential call of line 99
    futs,        \* per model: state of each future of the list futs
    yielded,     \* per model: the futures as_completed has yielded so far
    timings,     \* the dict timings; a duration is written as the number
                 \* of the call it timed (0 = the sequential first call,
                 \* k = the k-th submitted call)
    embed,       \* state of the embed_once call
    summary      \* per model: what the summary loop printed

warmVars == <<wpc, reps, concurrency, embed_model, mi, first, futs, yielded,
              timings, embed, summary>>

VARIABLES
    cpc,         \* position inside calculator(expression)
    expression,  \* the argument expression, as tokens separated by spaces
    evalResult,  \* what eval(expression) returned or raised
    calcResult   \* what calculator returned, or the exception it let escape

calcVars == <<cpc, expression, evalResult, calcResult>>

VARIABLES
    vpc,         \* position inside currency_converter
    amount,      \* the argument amount
    urlIndex,    \* position in urls of the loop variable url (0 = before)
    fetched,     \* every requests.get made by the call, in order, with the
                 \* URL it went to and what the service did
    convResult   \* what currency_converter returned, or the exception it
                 \* let escape

convVars == <<vpc, amount, urlIndex, fetched, convResult>>

VARIABLES
    apc,         \* position inside agent1.get_weather
    a_attempt,   \* loop variable of `for attempt in range(max_retries)`
    a_outcomes,  \* what the try body did on each attempt, in order
    a_sleeps,    \* every time.sleep(s) made by the call, in order
    a_result     \* what get_weather returned, or the exception it let escape

agentVars == <<apc, a_attempt, a_outcomes, a_sleeps, a_result>>

vars == <<clientVars, runVars, warmVars, calcVars, convVars, agentVars>>

---------------------------------------------------------------------------
(* Retry configuration, mcp_server_v2.py:65-67 *)

MAX_RETRIES == 3

\* BACKOFF_FACTOR = 1.5, kept exact as the fraction 3/2
BACKOFF_FACTOR_NUM == 3
BACKOFF_FACTOR_DEN == 2

TRANSIENT_CODES == {429, 500, 502, 503, 504}

RECURSIVE Pow(_, _)
Pow(b, n) == IF n = 0 THEN 1 ELSE b * Pow(b, n - 1)

\* BACKOFF_FACTOR ** attempt, as the exact fraction <<numerator, denominator>>
BackoffDelay(a) == <<Pow(BACKOFF_FACTOR_NUM, a), Pow(BACKOFF_FACTOR_DEN, a)>>

\* a test that also sleeps after the final attempt
RetryLeftOnFinalToo(a) == a < MAX_RETRIES

\* `if attempt < MAX_RETRIES - 1` : a retry is left after this attempt
RetryLeft(a) == a < MAX_RETRIES - 1

\* the loop written with one iteration too many
LoopHasNextOffByOne(a) == a + 1 <= MAX_RETRIES

\* `for attempt in range(MAX_RETRIES)` : the loop has a next iteration
LoopHasNext(a) == a + 1 < MAX_RETRIES

---------------------------------------------------------------------------
(* WEATHER_CODES, mcp_server_v2.py:44-59 *)

WEATHER_CODES ==
    [c \in {0, 1, 2, 3, 45, 48, 51, 53, 55, 56, 57, 61, 63, 65, 66, 67,
            71, 73, 75, 77, 80, 81, 82, 85, 86, 95, 96, 99} |->
        CASE c = 0  -> "Clear sky"
          [] c = 1  -> "Mainly clear"
          [] c = 2  -> "Partly cloudy"
          [] c = 3  -> "Overcast"
          [] c = 45 -> "Fog"
          [] c = 48 -> "Depositing rime fog"
          [] c = 51 -> "Light drizzle"
          [] c = 53 -> "Moderate drizzle"
          [] c = 55 -> "Dense drizzle"
          [] c = 56 -> "Light freezing drizzle"
          [] c = 57 -> "Dense freezing drizzle"
          [] c = 61 -> "Slight rain"
          [] c = 63 -> "Moderate rain"
          [] c = 65 -> "Heavy rain"
          [] c = 66 -> "Light freezing rain"
          [] c = 67 -> "Heavy freezing rain"
          [] c = 71 -> "Slight snow fall"
          [] c = 73 -> "Moderate snow fall"
          [] c = 75 -> "Heavy snow fall"
          [] c = 77 -> "Snow grains"
          [] c = 80 -> "Slight rain showers"
          [] c = 81 -> "Moderate rain showers"
          [] c = 82 -> "Violent rain showers"
          [] c = 85 -> "Slight snow showers"
          [] c = 86 -> "Heavy snow showers"
          [] c = 95 -> "Thunderstorm"
          [] c = 96 -> "Thunderstorm with slight hail"
          [] c = 99 -> "Thunderstorm with heavy hail"]

\* WEATHER_CODES.get(code, "Unknown")
WeatherCodesGet(code) ==
    IF code \in DOMAIN WEATHER_CODES THEN WEATHER_CODES[code] ELSE "Unknown"

---------------------------------------------------------------------------
(* The service: what one GET can produce.                                  *)

\* requests.RequestException subclasses raised by session.get
NetworkErrors == {"Timeout", "ConnectionError"}

\* HTTP status codes the service answers with
Statuses == {200, 400, 404, 429, 500, 503}

\* A response body, by the JSON value it holds.  json is the kind of the
\* top-level value ("invalid" = not JSON at all); the other fields describe
\* the members the tools read and matter only under an object.
\*   get_weather reads      body["current_weather"]["weathercode"|"temperature"]
\*   geocode_location reads body.get("results")[0]["latitude"|"longitude"|"name"]
Body(json, cw, code, temp, results, hit, lat) ==
    [json |-> json,
     current_weather |-> cw, weathercode |-> code, temperature |-> temp,
     results |-> results, hit |-> hit, latitude |-> lat]

NoBody == Body("invalid", "absent", -1, -1, "absent", "absent", -1)

\* -1 stands for an absent member; -2 for a member holding a JSON list
WeatherBodies ==
    { Body("invalid", "absent", -1, -1, "absent", "absent", -1),
      Body("null",    "absent", -1, -1, "absent", "absent", -1),
      Body("list",    "absent", -1, -1, "absent", "absent", -1),
      Body("object",  "absent", -1, -1, "absent", "absent", -1),
      Body("object",  "null",   -1, -1, "absent", "absent", -1),
      Body("object",  "object", -1, 21, "absent", "absent", -1),
      Body("object",  "object",  0, -1, "absent", "absent", -1),
      Body("object",  "object",  0, 21, "absent", "absent", -1),
      Body("object",  "object", 95, 30, "absent", "absent", -1),
      Body("object",  "object",  4, 21, "absent", "absent", -1),
      Body("object",  "object", -2, 21, "absent", "absent", -1) }

GeoBodies ==
    { Body("invalid", "absent", -1, -1, "absent", "absent", -1),
      Body("null",    "absent", -1, -1, "absent", "absent", -1),
      Body("list",    "absent", -1, -1, "absent", "absent", -1),
      Body("object",  "absent", -1, -1, "absent", "absent", -1),
      Body("object",  "absent", -1, -1, "empty_list", "absent", -1),
      Body("object",  "absent", -1, -1, "object", "absent", -1),
      Body("object",  "absent", -1, -1, "number", "absent", -1),
      Body("object",  "absent", -1, -1, "list", "null", -1),
      Body("object",  "absent", -1, -1, "list", "object", -1),
      Body("object",  "absent", -1, -1, "list", "object", 48) }

Bodies(f) == IF f = "get_weather" THEN WeatherBodies ELSE GeoBodies

NetOutcome(e) == [net |-> e, status |-> 0, body |-> NoBody]
RespOutcome(s, b) == [net |-> "", status |-> s, body |-> b]

\* a body that the tool reads without an exception
GoodBody(f) ==
    IF f = "get_weather"
      THEN Body("object", "object", 0, 21, "absent", "absent", -1)
      ELSE Body("object", "absent", -1, -1, "list", "object", 48)

\* Everything one attempt can meet: a network exception, an error status
\* with a body that is not JSON, a 503 that carries a readable body all the
\* same, and a 200 with any body.
Outcomes(f) ==
    { NetOutcome(e) : e \in NetworkErrors }
    \cup { RespOutcome(s, NoBody) : s \in Statuses \ {200} }
    \cup { RespOutcome(503, GoodBody(f)) }
    \cup { RespOutcome(200, b) : b \in Bodies(f) }

---------------------------------------------------------------------------
(* Values of the call's local variables and of its result.                 *)

\* last_error: None, f"HTTP {status}" or f"{type(e).__name__}"
NoError == [kind |-> "None", code |-> 0, name |-> ""]
HttpError(status) == [kind |-> "HTTP", code |-> status, name |-> ""]
TypeNameError(e) == [kind |-> "type", code |-> 0, name |-> e]

\* an assignment that keeps the first error seen
KeepFirstError(old, new) == IF old.kind = "None" THEN new ELSE old

\* the assignment `last_error = <text>`: the new text replaces the old one
AssignLastError(old, new) == new

NoResp == [status |-> 0, body |-> NoBody]
NoData == [temperature |-> -1, code |-> -1, conditions |-> "",
           latitude |-> -1, name |-> ""]

\* {"temperature": ..., "code": ..., "conditions": ...}, lines 130-134
WeatherData(t, c) == [temperature |-> t, code |-> c,
                      conditions |-> WeatherCodesGet(c),
                      latitude |-> -1, name |-> ""]
\* {"latitude": ..., "longitude": ..., "name": ...}, lines 223-227
GeoData(lat) == [temperature |-> -1, code |-> -1, conditions |-> "",
                 latitude |-> lat, name |-> "hit"]

NoResult == [kind |-> "none", error |-> "", exc |-> "", last |-> NoError,
             attempts |-> 0, data |-> NoData]
\* return {...data...}
ReturnData(d) == [kind |-> "data", error |-> "", exc |-> "", last |-> NoError,
                  attempts |-> 0, data |-> d]
\* return {"error": "Received invalid data from ... service: <type>. ..."}
ReturnInvalidData(e) == [kind |-> "error", error |-> "invalid_data", exc |-> e,
                         last |-> NoError, attempts |-> 0, data |-> NoData]
\* return {"error": "No location found for '<name>'. ..."}
ReturnNoLocation == [kind |-> "error", error |-> "no_location", exc |-> "",
                     last |-> NoError, attempts |-> 0, data |-> NoData]
\* return {"error": "... service failed after {MAX_RETRIES} attempts
\*                   (last error: {last_error}). ..."}
ReturnExhausted(le) == [kind |-> "error", error |-> "exhausted", exc |-> "",
                        last |-> le, attempts |-> MAX_RETRIES, data |-> NoData]
\* an exception leaves the function
Raise(e) == [kind |-> "raise", error |-> "", exc |-> e, last |-> NoError,
             attempts |-> 0, data |-> NoData]

---------------------------------------------------------------------------
(* Reading the response, as the code does it.                              *)

\* `resp.status_code in TRANSIENT_CODES`
IsTransient(status) == status \in TRANSIENT_CODES

\* a status check that also rejects 2xx and 3xx
RaisesForStatusFrom200(status) == status >= 200 /\ status < 600

\* a raise_for_status that lets server errors through
RaisesForStatusBelow500(status) == status >= 400 /\ status < 500

\* resp.raise_for_status() raises HTTPError for 4xx and 5xx
RaisesForStatus(status) == status >= 400 /\ status < 600

\* Lines 128-134: the exception the statements raise ("" = none) and the
\* dict they build.
\*   resp.json()                     invalid JSON   -> JSONDecodeError
\*   resp.json()["current_weather"]  null, list     -> TypeError
\*                                   key missing    -> KeyError
\*   cw["weathercode"]               cw null        -> TypeError
\*                                   key missing    -> KeyError
\*   cw["temperature"]               key missing    -> KeyError
\*   WEATHER_CODES.get(code, ...)    code a list    -> TypeError (unhashable)
ParseWeather(b) ==
    IF b.json = "invalid" THEN [exc |-> "JSONDecodeError", data |-> NoData]
    ELSE IF b.json # "object" THEN [exc |-> "TypeError", data |-> NoData]
    ELSE IF b.current_weather = "absent" THEN [exc |-> "KeyError", data |-> NoData]
    ELSE IF b.current_weather # "object" THEN [exc |-> "TypeError", data |-> NoData]
    ELSE IF b.weathercode = -1 THEN [exc |-> "KeyError", data |-> NoData]
    ELSE IF b.temperature = -1 THEN [exc |-> "KeyError", data |-> NoData]
    ELSE IF b.weathercode = -2 THEN [exc |-> "TypeError", data |-> NoData]
    ELSE [exc |-> "", data |-> WeatherData(b.temperature, b.weathercode)]

\* a reading that indexes data["results"][0] without testing the list
ParseGeoUnguarded(b) ==
    IF b.json = "invalid"
      THEN [exc |-> "JSONDecodeError", found |-> FALSE, data |-> NoData]
    ELSE IF b.json # "object"
      THEN [exc |-> "AttributeError", found |-> FALSE, data |-> NoData]
    ELSE IF b.results \in {"absent", "object"}
      THEN [exc |-> "KeyError", found |-> FALSE, data |-> NoData]
    ELSE IF b.results = "empty_list"
      THEN [exc |-> "IndexError", found |-> FALSE, data |-> NoData]
    ELSE IF b.results = "number"
      THEN [exc |-> "TypeError", found |-> FALSE, data |-> NoData]
    ELSE IF b.hit # "object"
      THEN [exc |-> "TypeError", found |-> FALSE, data |-> NoData]
    ELSE IF b.latitude = -1
      THEN [exc |-> "KeyError", found |-> FALSE, data |-> NoData]
    ELSE [exc |-> "", found |-> TRUE, data |-> GeoData(b.latitude)]

\* Lines 220-232: the exception raised ("" = none), whether the
\* "No location found" branch is taken, and the dict built.
\*   resp.json()           invalid JSON            -> JSONDecodeError
\*   data.get("results")   data null or a list     -> AttributeError
\*                         missing, [], null       -> falsy: else branch
\*   data["results"][0]    results a dict          -> KeyError
\*                         results a number        -> TypeError
\*   hit["latitude"]       hit null                -> TypeError
\*                         key missing             -> KeyError
ParseGeo(b) ==
    IF b.json = "invalid"
      THEN [exc |-> "JSONDecodeError", found |-> FALSE, data |-> NoData]
    ELSE IF b.json # "object"
      THEN [exc |-> "AttributeError", found |-> FALSE, data |-> NoData]
    ELSE IF b.results \in {"absent", "empty_list"}
      THEN [exc |-> "", found |-> FALSE, data |-> NoData]
    ELSE IF b.results = "object"
      THEN [exc |-> "KeyError", found |-> FALSE, data |-> NoData]
    ELSE IF b.results = "number"
      THEN [exc |-> "TypeError", found |-> FALSE, data |-> NoData]
    ELSE IF b.hit # "object"
      THEN [exc |-> "TypeError", found |-> FALSE, data |-> NoData]
    ELSE IF b.latitude = -1
      THEN [exc |-> "KeyError", found |-> FALSE, data |-> NoData]
    ELSE [exc |-> "", found |-> TRUE, data |-> GeoData(b.latitude)]

\* The except clause that catches exception e, in the order the clauses are
\* written (lines 136, 143, 150); "none" when no clause matches.
\* requests.exceptions.JSONDecodeError is a RequestException from
\* requests 2.27 on, and a ValueError in every version.
ExceptClause(e, jsonIsReq) ==
    IF e = "HTTPError" THEN "HTTPError"
    ELSE IF e \in NetworkErrors \/ (e = "JSONDecodeError" /\ jsonIsReq)
      THEN "RequestException"
    ELSE IF e \in {"KeyError", "ValueError", "JSONDecodeError"}
      THEN "DataFormat"
    ELSE "none"

---------------------------------------------------------------------------
(* get_weather (lines 77-159) and geocode_location (lines 173-257).        *)
(* The two functions have the same retry loop and differ in the body they  *)
(* read; the steps below are the statements of that loop.                  *)

Tools == {"get_weather", "geocode_location"}

\* the session object created by the current attempt
CurrentSession == Len(sessions)

ClientIdle ==
    /\ fn = ""
    /\ pc = "idle"
    /\ attempt = 0
    /\ last_error = NoError
    /\ resp = NoResp
    /\ exc = ""
    /\ sessions = <<>>
    /\ sleeps = <<>>
    /\ outcomes = <<>>
    /\ result = NoResult

\* the call: url = ...; last_error = None; enter the for loop (lines 103-111)
Call(f) ==
    /\ pc = "idle"
    /\ fn' = f
    /\ attempt' = 0
    /\ last_error' = NoError
    /\ pc' = "try"
    /\ UNCHANGED <<resp, exc, sessions, sleeps, outcomes, result,
                   jsonErrIsRequestException>>

\* one session made on the first attempt and kept for the later ones
OpenSessionReused ==
    /\ pc = "try"
    /\ sessions' = IF sessions = <<>>
                     THEN Append(sessions, [gets |-> 0, closed |-> FALSE])
                     ELSE sessions
    /\ exc' = ""
    /\ pc' = "get"
    /\ UNCHANGED <<fn, attempt, last_error, resp, sleeps, outcomes, result,
                   jsonErrIsRequestException>>

\* session = requests.Session()   (lines 114, 206)
OpenSession ==
    /\ pc = "try"
    /\ sessions' = Append(sessions, [gets |-> 0, closed |-> FALSE])
    /\ exc' = ""
    /\ pc' = "get"
    /\ UNCHANGED <<fn, attempt, last_error, resp, sleeps, outcomes, result,
                   jsonErrIsRequestException>>

\* resp = session.get(url, timeout=15)   (lines 115, 207): the service
\* answers, or the request raises a network exception.
Get ==
    /\ pc = "get"
    /\ \E o \in Outcomes(fn) :
        /\ outcomes' = Append(outcomes, o)
        /\ sessions' = [sessions EXCEPT ![CurrentSession].gets = @ + 1]
        /\ IF o.net # ""
             THEN /\ exc' = o.net
                  /\ pc' = "except"
                  /\ UNCHANGED resp
             ELSE /\ resp' = [status |-> o.status, body |-> o.body]
                  /\ pc' = "close"
                  /\ UNCHANGED exc
    /\ UNCHANGED <<fn, attempt, last_error, sleeps, result,
                   jsonErrIsRequestException>>

\* session.close()   (lines 116, 208)
CloseSession ==
    /\ pc = "close"
    /\ sessions' = [sessions EXCEPT ![CurrentSession].closed = TRUE]
    /\ pc' = "check"
    /\ UNCHANGED <<fn, attempt, last_error, resp, exc, sleeps, outcomes,
                   result, jsonErrIsRequestException>>

\* what the statements after raise_for_status do with the body:
\* lines 128-134 and 220-232
ReadBody(f, b) ==
    IF f = "get_weather"
      THEN LET p == ParseWeather(b)
           IN  [exc |-> p.exc,
                ret |-> IF p.exc = "" THEN ReturnData(p.data) ELSE NoResult]
      ELSE LET p == ParseGeo(b)
           IN  [exc |-> p.exc,
                ret |-> IF p.exc # "" THEN NoResult
                        ELSE IF p.found THEN ReturnData(p.data)
                        ELSE ReturnNoLocation]

\* Lines 119-134 and 211-232: the transient-status branch, then
\* raise_for_status, then reading the body.
HandleResponse ==
    /\ pc = "check"
    /\ IF IsTransient(resp.status) /\ RetryLeft(attempt)
         THEN \* last_error = ...; time.sleep(...); continue
              /\ last_error' = AssignLastError(last_error, HttpError(resp.status))
              /\ pc' = "sleep"
              /\ UNCHANGED <<exc, result>>
         ELSE /\ last_error' =
                   IF IsTransient(resp.status)
                     THEN AssignLastError(last_error, HttpError(resp.status))
                     ELSE last_error
              /\ IF RaisesForStatus(resp.status)
                   THEN /\ exc' = "HTTPError"
                        /\ pc' = "except"
                        /\ UNCHANGED result
                   ELSE LET r == ReadBody(fn, resp.body)
                        IN  IF r.exc # ""
                              THEN /\ exc' = r.exc
                                   /\ pc' = "except"
                                   /\ UNCHANGED result
                              ELSE /\ result' = r.ret
                                   /\ pc' = "done"
                                   /\ UNCHANGED exc
    /\ UNCHANGED <<fn, attempt, resp, sessions, sleeps, outcomes,
                   jsonErrIsRequestException>>

\* The except clauses, lines 136-154 and 234-252.
Except ==
    /\ pc = "except"
    /\ LET clause == ExceptClause(exc, jsonErrIsRequestException)
       IN  CASE clause = "HTTPError" ->
                  \* last_error = f"HTTP {e.response.status_code}"
                  /\ last_error' =
                       AssignLastError(last_error, HttpError(resp.status))
                  /\ pc' = IF RetryLeft(attempt) THEN "sleep" ELSE "next"
                  /\ UNCHANGED result
             [] clause = "RequestException" ->
                  \* last_error = f"{type(e).__name__}"
                  /\ last_error' =
                       AssignLastError(last_error, TypeNameError(exc))
                  /\ pc' = IF RetryLeft(attempt) THEN "sleep" ELSE "next"
                  /\ UNCHANGED result
             [] clause = "DataFormat" ->
                  /\ result' = ReturnInvalidData(exc)
                  /\ pc' = "done"
                  /\ UNCHANGED last_error
             [] OTHER ->
                  \* no clause matches: the exception leaves the function
                  /\ result' = Raise(exc)
                  /\ pc' = "done"
                  /\ UNCHANGED last_error
    /\ UNCHANGED <<fn, attempt, resp, exc, sessions, sleeps, outcomes,
                   jsonErrIsRequestException>>

\* a geocode_location that backs off by a fixed second
SleepFixedInGeocode ==
    /\ pc = "sleep"
    /\ sleeps' = Append(sleeps, IF fn = "geocode_location"
                                  THEN <<1, 1>> ELSE BackoffDelay(attempt))
    /\ pc' = "next"
    /\ UNCHANGED <<fn, attempt, last_error, resp, exc, sessions, outcomes,
                   result, jsonErrIsRequestException>>

\* time.sleep(BACKOFF_FACTOR ** attempt); continue
Sleep ==
    /\ pc = "sleep"
    /\ sleeps' = Append(sleeps, BackoffDelay(attempt))
    /\ pc' = "next"
    /\ UNCHANGED <<fn, attempt, last_error, resp, exc, sessions, outcomes,
                   result, jsonErrIsRequestException>>

\* The for statement takes its next value, or the loop ends and the
\* function returns the exhausted error (lines 156-159, 254-257).
NextAttempt ==
    /\ pc = "next"
    /\ IF LoopHasNext(attempt)
         THEN /\ attempt' = attempt + 1
              /\ pc' = "try"
              /\ UNCHANGED result
         ELSE /\ result' = ReturnExhausted(last_error)
              /\ pc' = "done"
              /\ UNCHANGED attempt
    /\ UNCHANGED <<fn, last_error, resp, exc, sessions, sleeps, outcomes,
                   jsonErrIsRequestException>>

---------------------------------------------------------------------------
(* run(question), agents/agent1.py:54-100.                                 *)
(* A reply is a sequence of tokens: the three markers the loop looks for,  *)
(* a registered tool name, a valid JSON object, a word that is neither,    *)
(* and white space.                                                        *)

max_iterations == 5

MaxReplyLen == 4

Markers == {"Final:", "Action:", "Args:"}
Tokens == Markers \cup {"get_weather", "{}", "w", " "}

\* the tool registry TOOLS
TOOLS == {"get_weather"}

Replies == UNION { [1..n -> Tokens] : n \in 1..MaxReplyLen }

\* the fixed string returned on line 100
Apology == <<"Sorry, I couldn't complete the task.">>

\* `marker in response`
Contains(r, m) == \E k \in 1..Len(r) : r[k] = m

\* index of the first token of r that is in set ms, Len(r)+1 when none
FirstOf(r, ms) ==
    IF \E k \in 1..Len(r) : r[k] \in ms
      THEN CHOOSE k \in 1..Len(r) :
             r[k] \in ms /\ \A j \in 1..(k - 1) : r[j] \notin ms
      ELSE Len(r) + 1

\* everything after the first occurrence of marker m
AfterFirst(r, m) == SubSeq(r, FirstOf(r, {m}) + 1, Len(r))

\* everything before the first token in ms
Before(r, ms) == SubSeq(r, 1, FirstOf(r, ms) - 1)

\* response.split(m)[1]: the text between the first occurrence of m and
\* the next one (or the end of the text)
SplitSecond(r, m) == Before(AfterFirst(r, m), {m})

\* str.strip(): leading and trailing white space removed
RECURSIVE LStrip(_)
LStrip(r) == IF r # <<>> /\ Head(r) = " " THEN LStrip(Tail(r)) ELSE r
RECURSIVE RStrip(_)
RStrip(r) ==
    IF r # <<>> /\ r[Len(r)] = " " THEN RStrip(SubSeq(r, 1, Len(r) - 1)) ELSE r
Strip(r) == LStrip(RStrip(r))

\* the answer taken without .strip()
FinalAnswerUnstripped(r) == SplitSecond(r, "Final:")

\* final = response.split("Final:")[1].strip()   (line 66)
FinalAnswer(r) == Strip(SplitSecond(r, "Final:"))

\* `"Final:" in response`   (line 64)
IsFinal(r) == Contains(r, "Final:")

\* `"Action:" in response and "Args:" in response`   (line 70)
HasActionArgs(r) == Contains(r, "Action:") /\ Contains(r, "Args:")

\* the tool name: the text after "Action:" up to the next marker, trimmed
ToolName(r) == Strip(Before(AfterFirst(r, "Action:"), Markers))

\* the args text: the text after "Args:", trimmed
ArgsText(r) == Strip(AfterFirst(r, "Args:"))

\* tool_func = TOOLS.get(tool_name); `tool_func is None`   (line 76)
ToolFound(name) == Len(name) = 1 /\ name[1] \in TOOLS

\* json.loads(args_text) succeeds
JsonLoads(text) == text = <<"{}">>

\* the loop written with one iteration too many
RunHasNextOffByOne(k) == k + 1 <= max_iterations

\* `for i in range(max_iterations)` has a next iteration
RunHasNext(k) == k + 1 < max_iterations

NoRunResult == [kind |-> "none", text |-> <<>>, why |-> ""]
\* return final   (line 67)
ReturnFinal(t) == [kind |-> "return", text |-> t, why |-> "final"]
\* a failure path that raises instead of returning the apology
RaiseFailure(w) == [kind |-> "raise", text |-> <<>>, why |-> w]

\* break, or the loop ends, then line 100; why names the branch taken
ReturnApology(w) == [kind |-> "return", text |-> Apology, why |-> w]

\* what a tool invocation can do: return a value, return a graceful
\* {"error": ...} value, or raise
ToolOutcomes == {"value", "error", "raise"}

RunIdle ==
    /\ rpc = "idle"
    /\ i = 0
    /\ response = <<>>
    /\ replies = 0
    /\ toolCalls = 0
    /\ observation = ""
    /\ runResult = NoRunResult

\* run is called; the for loop is entered (lines 54-60)
RunStart ==
    /\ rpc = "idle"
    /\ i' = 0
    /\ rpc' = "await_model"
    /\ UNCHANGED <<response, replies, toolCalls, observation, runResult>>

\* the model is sent the conversation and replies (line 61)
ModelReply ==
    /\ rpc = "await_model"
    /\ \E r \in Replies : response' = r
    /\ replies' = replies + 1
    /\ rpc' = "parse"
    /\ UNCHANGED <<i, toolCalls, observation, runResult>>

\* The evaluation of lines 63-98 with one of its three `break` statements
\* (unknown tool, line 79; JSONDecodeError, line 90; missing markers,
\* line 98) turned into a fall-through to the next iteration.
EvaluateVariant(unknownBreaks, badArgsBreaks, missingBreaks) ==
    /\ rpc = "parse"
    /\ IF IsFinal(response)
         THEN /\ runResult' = ReturnFinal(FinalAnswer(response))
              /\ rpc' = "done"
         ELSE LET why ==
                    IF ~HasActionArgs(response) THEN "missing_markers"
                    ELSE IF ~ToolFound(ToolName(response)) THEN "unknown_tool"
                    ELSE IF ~JsonLoads(ArgsText(response)) THEN "bad_args"
                    ELSE "tool"
                  breaks ==
                    \/ why = "missing_markers" /\ missingBreaks
                    \/ why = "unknown_tool" /\ unknownBreaks
                    \/ why = "bad_args" /\ badArgsBreaks
              IN  IF why = "tool"
                    THEN rpc' = "tool" /\ UNCHANGED runResult
                  ELSE IF breaks
                    THEN rpc' = "done" /\ runResult' = ReturnApology(why)
                  ELSE rpc' = "next" /\ UNCHANGED runResult
    /\ toolCalls' = IF rpc' = "tool" THEN toolCalls + 1 ELSE toolCalls
    /\ UNCHANGED <<i, response, replies, observation>>

\* the unknown-tool branch without its break
EvaluateUnknownToolContinues == EvaluateVariant(FALSE, TRUE, TRUE)
\* the JSONDecodeError handler without its break
EvaluateBadArgsContinues == EvaluateVariant(TRUE, FALSE, TRUE)
\* the missing-markers branch without its break
EvaluateMissingMarkersContinues == EvaluateVariant(TRUE, TRUE, FALSE)

\* Lines 63-98: the reply is evaluated, up to the tool invocation.
Evaluate ==
    /\ rpc = "parse"
    /\ IF IsFinal(response)
         THEN /\ runResult' = ReturnFinal(FinalAnswer(response))
              /\ rpc' = "done"
              /\ UNCHANGED toolCalls
         ELSE IF HasActionArgs(response)
           THEN IF ~ToolFound(ToolName(response))
                  THEN /\ runResult' = ReturnApology("unknown_tool")
                       /\ rpc' = "done"
                       /\ UNCHANGED toolCalls
                ELSE IF ~JsonLoads(ArgsText(response))
                  THEN /\ runResult' = ReturnApology("bad_args")
                       /\ rpc' = "done"
                       /\ UNCHANGED toolCalls
                ELSE /\ toolCalls' = toolCalls + 1
                     /\ rpc' = "tool"
                     /\ UNCHANGED runResult
           ELSE /\ runResult' = ReturnApology("missing_markers")
                /\ rpc' = "done"
                /\ UNCHANGED toolCalls
    /\ UNCHANGED <<i, response, replies, observation>>

\* a loop that gives up when the tool reports a graceful error
ToolReturnStopsOnError ==
    /\ rpc = "tool"
    /\ \E o \in ToolOutcomes :
        /\ observation' = o
        /\ IF o \in {"raise", "error"}
             THEN /\ runResult' = ReturnApology("tool_raised")
                  /\ rpc' = "done"
             ELSE /\ rpc' = "next"
                  /\ UNCHANGED runResult
    /\ UNCHANGED <<i, response, replies, toolCalls>>

\* observation = tool_func(**args): the tool returns or raises
\* (lines 81-93)
ToolReturn ==
    /\ rpc = "tool"
    /\ \E o \in ToolOutcomes :
        /\ observation' = o
        /\ IF o = "raise"
             THEN /\ runResult' = ReturnApology("tool_raised")
                  /\ rpc' = "done"
             ELSE /\ rpc' = "next"
                  /\ UNCHANGED runResult
    /\ UNCHANGED <<i, response, replies, toolCalls>>

\* the for statement takes its next value, or the loop ends (line 100)
RunNext ==
    /\ rpc = "next"
    /\ IF RunHasNext(i)
         THEN /\ i' = i + 1
              /\ rpc' = "await_model"
              /\ UNCHANGED runResult
         ELSE /\ runResult' = ReturnApology("budget_exhausted")
              /\ rpc' = "done"
              /\ UNCHANGED i
    /\ UNCHANGED <<response, replies, toolCalls, observation>>

---------------------------------------------------------------------------
(* The warm-up script, scripts/warmup_model.py *)

\* the largest --reps and --concurrency explored
MaxReps == 4
MaxConcurrency == 2

\* the list models that main builds from --models (line 126)
models == <<"m1", "m2">>
ModelNames == {models[k] : k \in 1..Len(models)}

\* the built-in max of line 107
Max(a, b) == IF a > b THEN a ELSE b

\* remaining = max(0, reps - 1), line 107
remaining == Max(0, reps - 1)

\* the futures of list f that wait in the pool's queue, that a worker thread
\* is running, and that are done
PendingFuts(f) == {k \in 1..Len(f) : f[k] = "pending"}
RunningFuts(f) == {k \in 1..Len(f) : f[k] = "running"}
DoneFuts(f) == {k \in 1..Len(f) : f[k] \in {"ok", "failed", "cancelled"}}

\* a pool that starts a worker thread for every submitted call
WorkerAlwaysFree(f, c) == TRUE

\* ThreadPoolExecutor(max_workers=c) has at most c worker threads and each
\* runs one call at a time: a queued call starts only when fewer than c run
WorkerFree(f, c) == Cardinality(RunningFuts(f)) < c

\* the call at the head of the pool's queue
NextQueued(f) == CHOOSE k \in PendingFuts(f) : \A j \in PendingFuts(f) : k <= j

\* nothing printed yet for a model, and the line "no timings (errors above)"
NoSummary == [first |-> -1, count |-> -1]
NoTimings == [first |-> -1, count |-> 0]

\* the summary line of one model (lines 144-147); median and all are
\* computed from the same list arr and only printed
SummaryLine(arr) ==
    IF arr # <<>> THEN [first |-> arr[1], count |-> Len(arr)] ELSE NoTimings

\* the script is not running
WarmIdle ==
    /\ wpc = "idle"
    /\ reps = 0
    /\ concurrency = 0
    /\ embed_model = FALSE
    /\ mi = 0
    /\ first = [n \in ModelNames |-> "none"]
    /\ futs = [n \in ModelNames |-> <<>>]
    /\ yielded = [n \in ModelNames |-> {}]
    /\ timings = [n \in ModelNames |-> <<>>]
    /\ embed = "none"
    /\ summary = [n \in ModelNames |-> NoSummary]

\* main after parse_args (line 121): --reps and --concurrency are any
\* integers (type=int); a value below 0 behaves as 0 does
WarmStart ==
    /\ wpc = "main"
    /\ reps \in 0..MaxReps
    /\ concurrency \in 0..MaxConcurrency
    /\ embed_model \in BOOLEAN
    /\ mi = 0
    /\ first = [n \in ModelNames |-> "none"]
    /\ futs = [n \in ModelNames |-> <<>>]
    /\ yielded = [n \in ModelNames |-> {}]
    /\ timings = [n \in ModelNames |-> <<>>]
    /\ embed = "none"
    /\ summary = [n \in ModelNames |-> NoSummary]

\* if not ping(host): raise SystemExit (lines 123-124); otherwise main calls
\* warm_models, which starts with every timings[m] empty (line 94)
Ping ==
    /\ wpc = "main"
    /\ \E reachable \in BOOLEAN :
        wpc' = IF reachable THEN "for" ELSE "exit"
    /\ UNCHANGED <<reps, concurrency, embed_model, mi, first, futs, yielded,
                   timings, embed, summary>>

\* for m in models (line 96): the next model's sequential gen_once call
\* starts (line 99), or the loop is over and warm_models returns (line 118)
NextModel ==
    /\ wpc = "for"
    /\ IF mi < Len(models)
         THEN /\ mi' = mi + 1
              /\ first' = [first EXCEPT ![models[mi + 1]] = "running"]
              /\ wpc' = "first"
         ELSE /\ wpc' = "returned"
              /\ UNCHANGED <<mi, first>>
    /\ UNCHANGED <<reps, concurrency, embed_model, futs, yielded, timings,
                   embed, summary>>

\* a first call whose failure is printed and then falls through to the pool
FirstCallFallsThrough ==
    /\ wpc = "first"
    /\ \E o \in {"ok", "failed"} :
        /\ first' = [first EXCEPT ![models[mi]] = o]
        /\ IF o = "ok"
             THEN timings' = [timings EXCEPT ![models[mi]] = Append(@, 0)]
             ELSE UNCHANGED timings
        /\ wpc' = IF remaining = 0 THEN "for"
                  ELSE IF concurrency <= 0 THEN "crashed"
                  ELSE "submit"
    /\ UNCHANGED <<reps, concurrency, embed_model, mi, futs, yielded, embed,
                   summary>>

\* the sequential call returns its duration or raises (lines 98-104); after
\* a success, `if remaining` opens the pool (lines 107-109), whose
\* constructor raises ValueError when max_workers <= 0
FirstCall ==
    /\ wpc = "first"
    /\ \E o \in {"ok", "failed"} :
        /\ first' = [first EXCEPT ![models[mi]] = o]
        /\ IF o = "ok"
             THEN /\ timings' = [timings EXCEPT ![models[mi]] = Append(@, 0)]
                  /\ wpc' = IF remaining = 0 THEN "for"
                            ELSE IF concurrency <= 0 THEN "crashed"
                            ELSE "submit"
             ELSE /\ UNCHANGED timings
                  /\ wpc' = "for"
    /\ UNCHANGED <<reps, concurrency, embed_model, mi, futs, yielded, embed,
                   summary>>

\* one ex.submit of the list comprehension (lines 110-111); after the last
\* one the main thread enters the as_completed loop
Submit ==
    /\ wpc = "submit"
    /\ futs' = [futs EXCEPT ![models[mi]] = Append(@, "pending")]
    /\ wpc' = IF Len(futs[models[mi]]) + 1 = remaining
                THEN "collect" ELSE "submit"
    /\ UNCHANGED <<reps, concurrency, embed_model, mi, first, yielded,
                   timings, embed, summary>>

\* a worker thread of the pool takes the next queued call and runs gen_once
TaskStart ==
    /\ \E n \in ModelNames :
        /\ PendingFuts(futs[n]) # {}
        /\ WorkerFree(futs[n], concurrency)
        /\ futs' = [futs EXCEPT ![n][NextQueued(futs[n])] = "running"]
    /\ UNCHANGED <<wpc, reps, concurrency, embed_model, mi, first, yielded,
                   timings, embed, summary>>

\* a failing call that cancels the calls still queued
TaskEndCancelsOnFailure ==
    /\ \E n \in ModelNames : \E k \in RunningFuts(futs[n]) :
        \E o \in {"ok", "failed"} :
            futs' = [futs EXCEPT ![n] =
                        [j \in 1..Len(@) |->
                            IF j = k THEN o
                            ELSE IF o = "failed" /\ @[j] = "pending"
                              THEN "cancelled" ELSE @[j]]]
    /\ UNCHANGED <<wpc, reps, concurrency, embed_model, mi, first, yielded,
                   timings, embed, summary>>

\* a gen_once that appends its own duration to timings from the worker thread
TaskEndWritesTimings ==
    /\ \E n \in ModelNames : \E k \in RunningFuts(futs[n]) :
        \E o \in {"ok", "failed"} :
            /\ futs' = [futs EXCEPT ![n][k] = o]
            /\ IF o = "ok"
                 THEN timings' = [timings EXCEPT ![n] = Append(@, k)]
                 ELSE UNCHANGED timings
    /\ UNCHANGED <<wpc, reps, concurrency, embed_model, mi, first, yielded,
                   embed, summary>>

\* a gen_once call run by a worker thread returns its duration or raises
\* (lines 61-66); the future holds the result or the exception
TaskEnd ==
    /\ \E n \in ModelNames : \E k \in RunningFuts(futs[n]) :
        \E o \in {"ok", "failed"} :
            futs' = [futs EXCEPT ![n][k] = o]
    /\ UNCHANGED <<wpc, reps, concurrency, embed_model, mi, first, yielded,
                   timings, embed, summary>>

\* a loop that puts each collected duration at the front of the list
CollectPrepends ==
    /\ wpc = "collect"
    /\ \E k \in DoneFuts(futs[models[mi]]) \ yielded[models[mi]] :
        /\ yielded' = [yielded EXCEPT ![models[mi]] = @ \cup {k}]
        /\ IF futs[models[mi]][k] = "ok"
             THEN timings' = [timings EXCEPT ![models[mi]] = <<k>> \o @]
             ELSE UNCHANGED timings
    /\ UNCHANGED <<wpc, reps, concurrency, embed_model, mi, first, futs,
                   embed, summary>>

\* one round of `for fut in cf.as_completed(futs)` (lines 112-116): a done
\* future not yet yielded is yielded; fut.result() is appended, or raises
\* and the warning is printed
Collect ==
    /\ wpc = "collect"
    /\ \E k \in DoneFuts(futs[models[mi]]) \ yielded[models[mi]] :
        /\ yielded' = [yielded EXCEPT ![models[mi]] = @ \cup {k}]
        /\ IF futs[models[mi]][k] = "ok"
             THEN timings' = [timings EXCEPT ![models[mi]] = Append(@, k)]
             ELSE UNCHANGED timings
    /\ UNCHANGED <<wpc, reps, concurrency, embed_model, mi, first, futs,
                   embed, summary>>

\* a loop that is left, and a pool that is shut down, without waiting
PoolExitEarly ==
    /\ wpc = "collect"
    /\ wpc' = "for"
    /\ UNCHANGED <<reps, concurrency, embed_model, mi, first, futs, yielded,
                   timings, embed, summary>>

\* as_completed is exhausted once it has yielded every future (line 112),
\* and leaving the with block (line 109) is shutdown(wait=True), which
\* joins the worker threads
PoolExit ==
    /\ wpc = "collect"
    /\ yielded[models[mi]] = 1..Len(futs[models[mi]])
    /\ PendingFuts(futs[models[mi]]) \cup RunningFuts(futs[models[mi]]) = {}
    /\ wpc' = "for"
    /\ UNCHANGED <<reps, concurrency, embed_model, mi, first, futs, yielded,
                   timings, embed, summary>>

\* main after warm_models has returned (lines 131-136): the optional
\* embed_once call starts
AfterWarm ==
    /\ wpc = "returned"
    /\ IF embed_model
         THEN embed' = "running" /\ wpc' = "embed"
         ELSE UNCHANGED embed /\ wpc' = "summary"
    /\ UNCHANGED <<reps, concurrency, embed_model, mi, first, futs, yielded,
                   timings, summary>>

\* embed_once returns or raises; the exception is caught (lines 135-139)
\* an embedding warm-up whose failure leaves main
EmbedEndRaises ==
    /\ wpc = "embed"
    /\ \E o \in {"ok", "failed"} :
        /\ embed' = o
        /\ wpc' = IF o = "failed" THEN "exit" ELSE "summary"
    /\ UNCHANGED <<reps, concurrency, embed_model, mi, first, futs, yielded,
                   timings, summary>>

EmbedEnd ==
    /\ wpc = "embed"
    /\ \E o \in {"ok", "failed"} : embed' = o
    /\ wpc' = "summary"
    /\ UNCHANGED <<reps, concurrency, embed_model, mi, first, futs, yielded,
                   timings, summary>>

\* the summary loop (lines 141-147)
Summary ==
    /\ wpc = "summary"
    /\ summary' = [n \in ModelNames |-> SummaryLine(timings[n])]
    /\ wpc' = "done"
    /\ UNCHANGED <<reps, concurrency, embed_model, mi, first, futs, yielded,
                   timings, embed>>

---------------------------------------------------------------------------
(* The calculator tool, agents/test_agent_reasoning.py:15-33 (the same     *)
(* function is agents/vulnerable_agent.py:15-30).                          *)
(* An expression is a sequence of tokens: two numbers, two binary          *)
(* operators that have no unary form, a name that is not defined and a     *)
(* call of the builtin exit.                                               *)

\* the longest expression explored, in tokens
MaxExprLen == 3

ExprTokens == {"0", "2", "*", "/", "xyz", "exit()"}
Expressions == UNION { [1..n -> ExprTokens] : n \in 0..MaxExprLen }

IsAtom(t) == t \in {"0", "2", "xyz", "exit()"}
IsOperator(t) == t \in {"*", "/"}

\* what an evaluation gives: a number num/den (float or int), or the name
\* of the exception raised
Value(n, d, fl) == [exc |-> "", num |-> n, den |-> d, float |-> fl]
Raised(e) == [exc |-> e, num |-> 0, den |-> 1, float |-> FALSE]
NotEvaluated == [exc |-> "", num |-> -1, den |-> -1, float |-> FALSE]

RECURSIVE Gcd(_, _)
Gcd(a, b) == IF b = 0 THEN a ELSE Gcd(b, a % b)

\* the number n/d in lowest terms
Reduced(n, d, fl) ==
    IF n = 0 THEN Value(0, 1, fl)
    ELSE Value(n \div Gcd(n, d), d \div Gcd(n, d), fl)

\* eval compiles the text first: atom (operator atom)*, anything else is a
\* SyntaxError
Compiles(e) ==
    /\ Len(e) % 2 = 1
    /\ \A k \in 1..Len(e) :
        IF k % 2 = 1 THEN IsAtom(e[k]) ELSE IsOperator(e[k])

\* evaluating one atom: a literal, an undefined name (NameError), or the
\* call exit(), which raises SystemExit
AtomValue(t) ==
    IF t = "0" THEN Value(0, 1, FALSE)
    ELSE IF t = "2" THEN Value(2, 1, FALSE)
    ELSE IF t = "xyz" THEN Raised("NameError")
    ELSE Raised("SystemExit")

\* a * b and a / b on two numbers; / is true division and gives a float
Apply(op, a, b) ==
    IF op = "*"
      THEN Reduced(a.num * b.num, a.den * b.den, a.float \/ b.float)
    ELSE IF b.num = 0 THEN Raised("ZeroDivisionError")
    ELSE Reduced(a.num * b.den, a.den * b.num, TRUE)

\* * and / have the same precedence and group to the left: the right
\* operand is evaluated, then the operator is applied, and the first
\* exception ends the evaluation
RECURSIVE EvalFrom(_, _, _)
EvalFrom(acc, e, k) ==
    IF k > Len(e) THEN acc
    ELSE LET b == AtomValue(e[k + 1])
         IN  IF b.exc # "" THEN b
             ELSE LET r == Apply(e[k], acc, b)
                  IN  IF r.exc # "" THEN r ELSE EvalFrom(r, e, k + 2)

\* eval(expression), line 30
Eval(e) ==
    IF ~Compiles(e) THEN Raised("SyntaxError")
    ELSE LET a == AtomValue(e[1])
         IN  IF a.exc # "" THEN a ELSE EvalFrom(a, e, 2)

\* `except Exception` (line 32) catches every exception class derived from
\* Exception; SystemExit, KeyboardInterrupt and GeneratorExit derive from
\* BaseException only
IsException(e) == e \notin {"SystemExit", "KeyboardInterrupt", "GeneratorExit"}

NoCalcResult == [kind |-> "none", text |-> "", value |-> NotEvaluated]
\* return f"Result: {result}"
ReturnResult(v) == [kind |-> "return", text |-> "Result: ", value |-> v]
\* return f"Error: {str(e)}"
ReturnError(v) == [kind |-> "return", text |-> "Error: ", value |-> v]
\* the exception leaves calculator
RaiseFromCalculator(v) == [kind |-> "raise", text |-> "", value |-> v]

\* the tool is not being called
CalcIdle ==
    /\ cpc = "idle"
    /\ expression = <<>>
    /\ evalResult = NotEvaluated
    /\ calcResult = NoCalcResult

\* calculator(expression) has been called with some expression
CalcStart ==
    /\ cpc = "try"
    /\ expression \in Expressions
    /\ evalResult = NotEvaluated
    /\ calcResult = NoCalcResult

\* result = eval(expression)   (line 30)
CalculatorEval ==
    /\ cpc = "try"
    /\ evalResult' = Eval(expression)
    /\ cpc' = "evaluated"
    /\ UNCHANGED <<expression, calcResult>>

\* line 31 when eval returned, lines 32-33 when it raised an Exception;
\* any other exception propagates to the caller
CalculatorReturn ==
    /\ cpc = "evaluated"
    /\ calcResult' =
         IF evalResult.exc = "" THEN ReturnResult(evalResult)
         ELSE IF IsException(evalResult.exc) THEN ReturnError(evalResult)
         ELSE RaiseFromCalculator(evalResult)
    /\ cpc' = "done"
    /\ UNCHANGED <<expression, evalResult>>

---------------------------------------------------------------------------
(* currency_converter, agents/test_agent_reasoning.py:100-140 *)

\* the largest amount explored
MaxAmount == 2

\* the list urls (lines 118-121)
urls == <<"cdn.jsdelivr.net", "latest.currency-api.pages.dev">>

\* What one request can meet.  body is the JSON value of a 200 answer:
\*   "invalid"     not JSON
\*   "null"        JSON that is not an object
\*   "no_base"     an object without the key base
\*   "rates_null"  an object whose base member is null
\*   "rates"       an object whose base member is an object; rate is then
\*                 the member target: -1 absent, -2 present but not a number
\*                 (null, a string), otherwise the rate
ConvAnswer(e, s, b, r) == [net |-> e, status |-> s, body |-> b, rate |-> r]

ConvOutcomes ==
    { ConvAnswer(e, 0, "", -1) : e \in NetworkErrors }
    \cup { ConvAnswer("", s, "", -1) : s \in {404, 503} }
    \cup { ConvAnswer("", 200, b, -1) :
              b \in {"invalid", "null", "no_base", "rates_null"} }
    \cup { ConvAnswer("", 200, "rates", r) : r \in {-1, -2, 2, 3} }

\* Lines 125-134 on one answer: the exception raised ("" = none), whether
\* the return statement is reached, and the rate used.
\*   requests.get              network failure      -> Timeout, ConnectionError
\*   response.raise_for_status 4xx, 5xx             -> HTTPError
\*   response.json()           invalid JSON         -> JSONDecodeError
\*   data.get(base, {})        data null or a list  -> AttributeError
\*                             key missing          -> {}: target not in it
\*   target in rates           rates null           -> TypeError
\*   amount * rate, {..:.2f}   rate null or a string -> TypeError
ConvTry(o) ==
    IF o.net # "" THEN [exc |-> o.net, found |-> FALSE, rate |-> -1]
    ELSE IF RaisesForStatus(o.status)
      THEN [exc |-> "HTTPError", found |-> FALSE, rate |-> -1]
    ELSE IF o.body = "invalid"
      THEN [exc |-> "JSONDecodeError", found |-> FALSE, rate |-> -1]
    ELSE IF o.body = "null"
      THEN [exc |-> "AttributeError", found |-> FALSE, rate |-> -1]
    ELSE IF o.body = "no_base"
      THEN [exc |-> "", found |-> FALSE, rate |-> -1]
    ELSE IF o.body = "rates_null"
      THEN [exc |-> "TypeError", found |-> FALSE, rate |-> -1]
    ELSE IF o.rate = -1
      THEN [exc |-> "", found |-> FALSE, rate |-> -1]
    ELSE IF o.rate = -2
      THEN [exc |-> "TypeError", found |-> FALSE, rate |-> -1]
    ELSE [exc |-> "", found |-> TRUE, rate |-> o.rate]

NoConvResult == [kind |-> "none", text |-> "", url |-> 0, rate |-> -1,
                 value |-> -1, exc |-> ""]
\* return f"{amount} {from_curr} = {result:.2f} {to_curr} (rate: {rate:.4f})"
ReturnConversion(u, a, r) ==
    [kind |-> "return", text |-> "conversion", url |-> u, rate |-> r,
     value |-> a * r, exc |-> ""]
\* return f"Currency conversion failed for {from_curr} to {to_curr}"
ReturnConversionFailed ==
    [kind |-> "return", text |-> "Currency conversion failed", url |-> 0,
     rate |-> -1, value |-> -1, exc |-> ""]
\* the exception leaves currency_converter
RaiseFromConverter(e) ==
    [kind |-> "raise", text |-> "", url |-> 0, rate |-> -1, value |-> -1,
     exc |-> e]

\* the tool is not being called
ConvIdle ==
    /\ vpc = "idle"
    /\ amount = 0
    /\ urlIndex = 0
    /\ fetched = <<>>
    /\ convResult = NoConvResult

\* currency_converter(amount, from_currency, to_currency) has been called
\* and has built urls (lines 111-121)
ConvStart ==
    /\ vpc = "for"
    /\ amount \in 1..MaxAmount
    /\ urlIndex = 0
    /\ fetched = <<>>
    /\ convResult = NoConvResult

\* for url in urls (line 123); after the last URL, line 139
NextUrl ==
    /\ vpc = "for"
    /\ IF urlIndex < Len(urls)
         THEN /\ urlIndex' = urlIndex + 1
              /\ vpc' = "get"
              /\ UNCHANGED convResult
         ELSE /\ convResult' = ReturnConversionFailed
              /\ vpc' = "done"
              /\ UNCHANGED urlIndex
    /\ UNCHANGED <<amount, fetched>>

\* response = requests.get(url, timeout=5)   (line 125)
ConvGet ==
    /\ vpc = "get"
    /\ \E o \in ConvOutcomes :
        fetched' = Append(fetched, [url |-> urlIndex, answer |-> o])
    /\ vpc' = "read"
    /\ UNCHANGED <<amount, urlIndex, convResult>>

\* a handler that gives up at the first exception
ConvReadGivesUp ==
    /\ vpc = "read"
    /\ LET t == ConvTry(fetched[Len(fetched)].answer)
       IN  IF t.exc # ""
             THEN convResult' = ReturnConversionFailed /\ vpc' = "done"
           ELSE IF t.found
             THEN /\ convResult' = ReturnConversion(urlIndex, amount, t.rate)
                  /\ vpc' = "done"
           ELSE UNCHANGED convResult /\ vpc' = "for"
    /\ UNCHANGED <<amount, urlIndex, fetched>>

\* lines 126-137: the rest of the try body and `except Exception: continue`
ConvRead ==
    /\ vpc = "read"
    /\ LET t == ConvTry(fetched[Len(fetched)].answer)
       IN  IF t.exc # ""
             THEN IF IsException(t.exc)
                    THEN UNCHANGED convResult /\ vpc' = "for"
                    ELSE /\ convResult' = RaiseFromConverter(t.exc)
                         /\ vpc' = "done"
           ELSE IF t.found
             THEN /\ convResult' = ReturnConversion(urlIndex, amount, t.rate)
                  /\ vpc' = "done"
           ELSE UNCHANGED convResult /\ vpc' = "for"
    /\ UNCHANGED <<amount, urlIndex, fetched>>

---------------------------------------------------------------------------
(* get_weather of agents/agent1.py:28-40.  The try body (line 35) is not   *)
(* in the file: it is taken to make one request and to return the weather  *)
(* dict when nothing is raised.                                            *)

max_retries == 3

\* what the try body can do on one attempt: return the dict, or raise
AgentTryOutcomes ==
    {"ok", "Timeout", "ConnectionError", "HTTPError", "JSONDecodeError",
     "KeyError", "TypeError"}

\* except (requests.Timeout, requests.ConnectionError)   (line 36)
AgentCatches(e) == e \in {"Timeout", "ConnectionError"}

\* a test that never sees the final attempt
IsFinalAttemptNever(a) == a = max_retries

\* `if attempt == max_retries - 1`   (line 37)
IsFinalAttempt(a) == a = max_retries - 1

NoAgentResult == [kind |-> "none", exc |-> ""]
AgentReturnData == [kind |-> "data", exc |-> ""]
\* the function ends without a return statement
AgentReturnNone == [kind |-> "None", exc |-> ""]
AgentRaise(e) == [kind |-> "raise", exc |-> e]

\* the tool is not being called
AgentIdle ==
    /\ apc = "idle"
    /\ a_attempt = 0
    /\ a_outcomes = <<>>
    /\ a_sleeps = <<>>
    /\ a_result = NoAgentResult

\* get_weather(lat, lon) has been called and enters the loop (lines 32-33)
AgentStart ==
    /\ apc = "try"
    /\ a_attempt = 0
    /\ a_outcomes = <<>>
    /\ a_sleeps = <<>>
    /\ a_result = NoAgentResult

\* the try body (lines 34-35): it returns the dict or raises
AgentTry ==
    /\ apc = "try"
    /\ \E o \in AgentTryOutcomes :
        /\ a_outcomes' = Append(a_outcomes, o)
        /\ IF o = "ok"
             THEN a_result' = AgentReturnData /\ apc' = "done"
             ELSE UNCHANGED a_result /\ apc' = "except"
    /\ UNCHANGED <<a_attempt, a_sleeps>>

\* the except clause (lines 36-39): an exception it does not name leaves the
\* function; on the final attempt the exception is re-raised
AgentExcept ==
    /\ apc = "except"
    /\ LET e == a_outcomes[Len(a_outcomes)]
       IN  IF AgentCatches(e) /\ ~IsFinalAttempt(a_attempt)
             THEN UNCHANGED a_result /\ apc' = "sleep"
             ELSE a_result' = AgentRaise(e) /\ apc' = "done"
    /\ UNCHANGED <<a_attempt, a_outcomes, a_sleeps>>

\* time.sleep(2)   (line 40)
AgentSleep ==
    /\ apc = "sleep"
    /\ a_sleeps' = Append(a_sleeps, 2)
    /\ apc' = "next"
    /\ UNCHANGED <<a_attempt, a_outcomes, a_result>>

\* the for statement takes its next value, or the loop and the function end
AgentNextAttempt ==
    /\ apc = "next"
    /\ IF a_attempt + 1 < max_retries
         THEN /\ a_attempt' = a_attempt + 1
              /\ apc' = "try"
              /\ UNCHANGED a_result
         ELSE /\ a_result' = AgentReturnNone
              /\ apc' = "done"
              /\ UNCHANGED a_attempt
    /\ UNCHANGED <<a_outcomes, a_sleeps>>

---------------------------------------------------------------------------
(* Specifications *)

ClientInit ==
    /\ ClientIdle
    /\ jsonErrIsRequestException \in BOOLEAN
    /\ RunIdle
    /\ WarmIdle
    /\ CalcIdle
    /\ ConvIdle
    /\ AgentIdle

ClientNext ==
    \/ (\E f \in Tools : Call(f)) /\ UNCHANGED <<runVars, warmVars, calcVars, convVars, agentVars>>
    \/ OpenSession /\ UNCHANGED <<runVars, warmVars, calcVars, convVars, agentVars>>
    \/ Get /\ UNCHANGED <<runVars, warmVars, calcVars, convVars, agentVars>>
    \/ CloseSession /\ UNCHANGED <<runVars, warmVars, calcVars, convVars, agentVars>>
    \/ HandleResponse /\ UNCHANGED <<runVars, warmVars, calcVars, convVars, agentVars>>
    \/ Except /\ UNCHANGED <<runVars, warmVars, calcVars, convVars, agentVars>>
    \/ Sleep /\ UNCHANGED <<runVars, warmVars, calcVars, convVars, agentVars>>
    \/ NextAttempt /\ UNCHANGED <<runVars, warmVars, calcVars, convVars, agentVars>>

SpecClient == ClientInit /\ [][ClientNext]_vars

RunInit ==
    /\ RunIdle
    /\ ClientIdle
    /\ jsonErrIsRequestException = TRUE
    /\ WarmIdle
    /\ CalcIdle
    /\ ConvIdle
    /\ AgentIdle

RunNextStep ==
    \/ RunStart /\ UNCHANGED <<clientVars, warmVars, calcVars, convVars, agentVars>>
    \/ ModelReply /\ UNCHANGED <<clientVars, warmVars, calcVars, convVars, agentVars>>
    \/ Evaluate /\ UNCHANGED <<clientVars, warmVars, calcVars, convVars, agentVars>>
    \/ ToolReturn /\ UNCHANGED <<clientVars, warmVars, calcVars, convVars, agentVars>>
    \/ RunNext /\ UNCHANGED <<clientVars, warmVars, calcVars, convVars, agentVars>>

SpecRun == RunInit /\ [][RunNextStep]_vars

WarmInit ==
    /\ WarmStart
    /\ ClientIdle
    /\ jsonErrIsRequestException = TRUE
    /\ RunIdle
    /\ CalcIdle
    /\ ConvIdle
    /\ AgentIdle

WarmNext ==
    \/ Ping /\ UNCHANGED <<clientVars, runVars, calcVars, convVars, agentVars>>
    \/ NextModel /\ UNCHANGED <<clientVars, runVars, calcVars, convVars, agentVars>>
    \/ FirstCall /\ UNCHANGED <<clientVars, runVars, calcVars, convVars, agentVars>>
    \/ Submit /\ UNCHANGED <<clientVars, runVars, calcVars, convVars, agentVars>>
    \/ TaskStart /\ UNCHANGED <<clientVars, runVars, calcVars, convVars, agentVars>>
    \/ TaskEnd /\ UNCHANGED <<clientVars, runVars, calcVars, convVars, agentVars>>
    \/ Collect /\ UNCHANGED <<clientVars, runVars, calcVars, convVars, agentVars>>
    \/ PoolExit /\ UNCHANGED <<clientVars, runVars, calcVars, convVars, agentVars>>
    \/ AfterWarm /\ UNCHANGED <<clientVars, runVars, calcVars, convVars, agentVars>>
    \/ EmbedEnd /\ UNCHANGED <<clientVars, runVars, calcVars, convVars, agentVars>>
    \/ Summary /\ UNCHANGED <<clientVars, runVars, calcVars, convVars, agentVars>>

SpecWarm == WarmInit /\ [][WarmNext]_vars

CalcInit ==
    /\ CalcStart
    /\ ClientIdle
    /\ jsonErrIsRequestException = TRUE
    /\ RunIdle
    /\ WarmIdle
    /\ ConvIdle
    /\ AgentIdle

CalcNext ==
    \/ CalculatorEval /\ UNCHANGED <<clientVars, runVars, warmVars, convVars, agentVars>>
    \/ CalculatorReturn /\ UNCHANGED <<clientVars, runVars, warmVars, convVars, agentVars>>

SpecCalc == CalcInit /\ [][CalcNext]_vars

ConvInit ==
    /\ ConvStart
    /\ ClientIdle
    /\ jsonErrIsRequestException = TRUE
    /\ RunIdle
    /\ WarmIdle
    /\ CalcIdle
    /\ AgentIdle

ConvNext ==
    \/ NextUrl /\ UNCHANGED <<clientVars, runVars, warmVars, calcVars, agentVars>>
    \/ ConvGet /\ UNCHANGED <<clientVars, runVars, warmVars, calcVars, agentVars>>
    \/ ConvRead /\ UNCHANGED <<clientVars, runVars, warmVars, calcVars, agentVars>>

SpecConv == ConvInit /\ [][ConvNext]_vars

AgentInit ==
    /\ AgentStart
    /\ ClientIdle
    /\ jsonErrIsRequestException = TRUE
    /\ RunIdle
    /\ WarmIdle
    /\ CalcIdle
    /\ ConvIdle

AgentNext ==
    \/ AgentTry /\ UNCHANGED <<clientVars, runVars, warmVars, calcVars, convVars>>
    \/ AgentExcept /\ UNCHANGED <<clientVars, runVars, warmVars, calcVars, convVars>>
    \/ AgentSleep /\ UNCHANGED <<clientVars, runVars, warmVars, calcVars, convVars>>
    \/ AgentNextAttempt /\ UNCHANGED <<clientVars, runVars, warmVars, calcVars, convVars>>

SpecAgentWeather == AgentInit /\ [][AgentNext]_vars

Init == ClientInit
Next == ClientNext
Spec == SpecClient

---------------------------------------------------------------------------
(* Properties of get_weather and geocode_location, checked under           *)
(* SpecClient.                                                             *)

\* the attempt met a network exception
IsNetworkFailure(o) == o.net # ""
\* the attempt received a response with the given class of status
IsTransientStatus(o) == o.net = "" /\ o.status \in {429, 500, 502, 503, 504}
IsPermanentStatus(o) ==
    o.net = "" /\ o.status >= 400 /\ o.status < 600
    /\ o.status \notin {429, 500, 502, 503, 504}
IsSuccessStatus(o) == o.net = "" /\ o.status >= 200 /\ o.status < 300
\* a retryable failure: a network error or a status in TRANSIENT_CODES
IsRetryable(o) == IsNetworkFailure(o) \/ IsTransientStatus(o)

Returned == pc = "done"

\* C1: for every sequence of per-attempt outcomes the call returns a dict
\* (data or {"error": ...}); no exception escapes.
C1_NeverRaises == Returned => result.kind \in {"data", "error"}

\* C2: after an attempt that received a 4xx/5xx status outside
\* {429, 500, 502, 503, 504} there is no further attempt and no backoff
\* sleep, and the call returns a failure.
C2_PermanentStatusNotRetried ==
    \A k \in 1..Len(outcomes) :
        IsPermanentStatus(outcomes[k]) =>
            /\ Len(outcomes) = k
            /\ Len(sleeps) <= k - 1
            /\ pc # "sleep"
            /\ (Returned => result.kind = "error")

\* the 2xx body is not valid JSON
BodyNotJson(f, b) == b.json = "invalid"
\* the 2xx body is a JSON object that lacks a key the tool reads
BodyLacksKey(f, b) ==
    /\ b.json = "object"
    /\ IF f = "get_weather"
         THEN \/ b.current_weather = "absent"
              \/ /\ b.current_weather = "object"
                 /\ (b.weathercode = -1 \/ b.temperature = -1)
         ELSE /\ b.results = "list"
              /\ b.hit = "object"
              /\ b.latitude = -1

\* C3: after an attempt that received a 2xx response whose body is not
\* valid JSON, or is JSON lacking the expected keys, there is no further
\* attempt and no backoff sleep, and the call returns the invalid-data
\* error dict.
C3_DataFormatNotRetried ==
    \A k \in 1..Len(outcomes) :
        (/\ IsSuccessStatus(outcomes[k])
         /\ (BodyNotJson(fn, outcomes[k].body) \/ BodyLacksKey(fn, outcomes[k].body)))
        =>  /\ Len(outcomes) = k
            /\ Len(sleeps) <= k - 1
            /\ pc # "sleep"
            /\ (Returned => result.kind = "error" /\ result.error = "invalid_data")

\* C4: a call never makes more than MAX_RETRIES (3) HTTP attempts, and when
\* every attempt fails with a retryable failure it makes exactly 3.
C4_AttemptsBounded ==
    /\ Len(outcomes) <= 3
    /\ Len(sessions) <= 3
    /\ MAX_RETRIES = 3
    /\ (Returned /\ (\A k \in 1..Len(outcomes) : IsRetryable(outcomes[k]))
            => Len(outcomes) = 3)

C4_Witness ==
    /\ Returned
    /\ Len(outcomes) = 3
    /\ \A k \in 1..3 : IsRetryable(outcomes[k])

\* a 2xx response whose body holds everything the tool reads
IsWellFormed(f, o) ==
    /\ IsSuccessStatus(o)
    /\ o.body.json = "object"
    /\ IF f = "get_weather"
         THEN /\ o.body.current_weather = "object"
              /\ o.body.weathercode >= 0
              /\ o.body.temperature >= 0
         ELSE /\ o.body.results = "list"
              /\ o.body.hit = "object"
              /\ o.body.latitude >= 0

\* the call returned the data of body b
ReturnedDataOf(f, b) ==
    /\ result.kind = "data"
    /\ IF f = "get_weather"
         THEN /\ result.data.temperature = b.temperature
              /\ result.data.code = b.weathercode
         ELSE result.data.latitude = b.latitude

\* C5: for every k < MAX_RETRIES, when the first k attempts fail with
\* transient failures and attempt k+1 receives a 2xx well-formed body, the
\* call ends with that attempt and returns its data, not an error.
C5_SuccessAfterTransient ==
    \A k \in 0..2 :
        (/\ Len(outcomes) >= k + 1
         /\ \A j \in 1..k : IsRetryable(outcomes[j])
         /\ IsWellFormed(fn, outcomes[k + 1]))
        =>  /\ Len(outcomes) = k + 1
            /\ pc \in {"close", "check", "done"}
            /\ (Returned => ReturnedDataOf(fn, outcomes[k + 1].body))

C5_Witness ==
    /\ Returned
    /\ Len(outcomes) = 3
    /\ IsRetryable(outcomes[1]) /\ IsRetryable(outcomes[2])
    /\ IsWellFormed(fn, outcomes[3])
    /\ result.kind = "data"

\* the last-error text that describes the failure of attempt outcome o
ErrorTextOf(o) ==
    IF o.net # "" THEN [kind |-> "type", code |-> 0, name |-> o.net]
    ELSE [kind |-> "HTTP", code |-> o.status, name |-> ""]

\* C6: when all MAX_RETRIES attempts fail with retryable failures the call
\* returns the "failed after 3 attempts" error dict, raises nothing, and the
\* last-error text in it describes the failure of the final attempt.
C6_ExhaustedReportsLastFailure ==
    (/\ Returned
     /\ Len(outcomes) = 3
     /\ \A k \in 1..3 : IsRetryable(outcomes[k]))
    =>  /\ result.kind = "error"
        /\ result.error = "exhausted"
        /\ result.attempts = 3
        /\ result.last = ErrorTextOf(outcomes[3])

\* the final failure differs from the earlier ones, so the text tells them
\* apart
C6_Witness ==
    /\ Returned
    /\ Len(outcomes) = 3
    /\ \A k \in 1..3 : IsRetryable(outcomes[k])
    /\ ErrorTextOf(outcomes[3]) # ErrorTextOf(outcomes[2])
    /\ ErrorTextOf(outcomes[3]) # ErrorTextOf(outcomes[1])
    /\ result.error = "exhausted"

\* C7: the client sleeps 1.5 s (3/2) before attempt 2 and 2.25 s (9/4)
\* before attempt 3.
C7_BackoffDelays ==
    /\ Len(sleeps) >= 1 => sleeps[1] = <<3, 2>>
    /\ Len(sleeps) >= 2 => sleeps[2] = <<9, 4>>

RECURSIVE SumGets(_)
SumGets(ss) == IF ss = <<>> THEN 0 ELSE Head(ss).gets + SumGets(Tail(ss))

\* C8: every attempt opens a new session: no session object is used for
\* more than one GET, and every GET is made on a session of its own.
C8_FreshSessionPerAttempt ==
    /\ \A k \in 1..Len(sessions) : sessions[k].gets <= 1
    /\ SumGets(sessions) = Len(outcomes)
    /\ Len(sessions) >= Len(outcomes)
    /\ \A k \in 1..Len(sessions) : sessions[k].closed => sessions[k].gets = 1

C8_Witness ==
    /\ Len(outcomes) = 3
    /\ Len(sessions) = 3
    /\ \A k \in 1..3 : sessions[k].gets = 1

---------------------------------------------------------------------------
(* Properties of run, checked under SpecRun.                               *)

RunReturned == rpc = "done"

\* C9: whatever the model replies and the tools do, run evaluates at most
\* max_iterations (5) model replies and invokes at most 5 tools: after the
\* fifth reply has been evaluated the model is not consulted again and the
\* run ends.
C9_RunBounded ==
    /\ max_iterations = 5
    /\ replies <= 5
    /\ toolCalls <= 5
    /\ toolCalls <= replies
    /\ (rpc = "await_model" => replies < 5)

\* the iteration budget is used up: five replies, five tool invocations
C9_Witness ==
    /\ RunReturned
    /\ replies = 5
    /\ toolCalls = 5

\* positions of the "Final:" markers of reply r
FinalMarks(r) == { k \in 1..Len(r) : r[k] = "Final:" }
FirstFinal(r) == CHOOSE k \in FinalMarks(r) : \A j \in FinalMarks(r) : k <= j

\* the text of r strictly between positions lo and hi, without the white
\* space at its two ends
TrimmedBetween(r, lo, hi) ==
    LET inner == { k \in (lo + 1)..(hi - 1) : r[k] # " " }
    IN  IF inner = {} THEN <<>>
        ELSE LET a == CHOOSE k \in inner : \A j \in inner : k <= j
                 b == CHOOSE k \in inner : \A j \in inner : k >= j
             IN  [n \in 1..(b - a + 1) |-> r[a + n - 1]]

\* the trimmed text after the first "Final:" marker, to the end of the reply
TextAfterFinal(r) == TrimmedBetween(r, FirstFinal(r), Len(r) + 1)

\* the trimmed text between the first "Final:" marker and the next one, or
\* the end of the reply when there is no second marker
TextUpToNextFinal(r) ==
    LET later == { k \in FinalMarks(r) : k > FirstFinal(r) }
        stop == IF later = {} THEN Len(r) + 1
                ELSE CHOOSE k \in later : \A j \in later : k <= j
    IN  TrimmedBetween(r, FirstFinal(r), stop)

\* a reply with "Final:" ends the run in its own iteration: no tool is
\* invoked for it and the model is not consulted again
FinalEndsRun ==
    IsFinal(response) =>
        /\ rpc \in {"parse", "done"}
        /\ replies = i + 1
        /\ toolCalls = replies - 1
        /\ (RunReturned => runResult.kind = "return" /\ runResult.why = "final")

\* C10 as stated: when a reply contains "Final:", run returns the trimmed
\* text after the marker in that iteration, invokes no tool and consults
\* the model no further, whatever other markers the reply holds.
C10_FinalReturnsTextAfterMarker ==
    /\ FinalEndsRun
    /\ (IsFinal(response) /\ RunReturned
            => runResult.text = TextAfterFinal(response))

\* C10 amended: when a reply contains "Final:", run returns the trimmed text
\* between the first "Final:" marker and the next "Final:" marker (the end
\* of the reply when there is none) in that iteration, invokes no tool and
\* consults the model no further, whatever other markers the reply holds.
C10_FinalReturnsTextUpToNextMarker ==
    /\ FinalEndsRun
    /\ (IsFinal(response) /\ RunReturned
            => runResult.text = TextUpToNextFinal(response))

\* a reply that holds all three markers, "Final:" last, and the answer w
C10_Witness ==
    /\ RunReturned
    /\ IsFinal(response)
    /\ HasActionArgs(response)
    /\ runResult.why = "final"
    /\ runResult.text = <<"w">>


\* a reply without "Final:" that holds both "Action:" and "Args:"
ProposesAction(r) ==
    /\ ~Contains(r, "Final:")
    /\ Contains(r, "Action:")
    /\ Contains(r, "Args:")

\* the reply under evaluation has ended the run with the apology, in its own
\* iteration and without a tool invocation or a further model call
FailsInSameIteration(w) ==
    /\ rpc \in {"parse", "done"}
    /\ replies = i + 1
    /\ toolCalls = replies - 1
    /\ (RunReturned =>
            /\ runResult.kind = "return"
            /\ runResult.text = <<"Sorry, I couldn't complete the task.">>
            /\ runResult.why \in w)

\* C11: when the model proposes an Action whose tool name is not in the
\* registry, run ends in that same iteration with the failure result (after
\* iteration 1 when it is the first reply), invokes no tool and does not go
\* on to max_iterations.
C11_UnknownToolFailsAtOnce ==
    (ProposesAction(response) /\ ToolName(response) # <<"get_weather">>)
        => FailsInSameIteration({"unknown_tool"})

\* the first reply names an unknown tool, with args that are valid JSON
C11_Witness ==
    /\ RunReturned
    /\ replies = 1
    /\ ProposesAction(response)
    /\ ToolName(response) = <<"w">>
    /\ ArgsText(response) = <<"{}">>
    /\ runResult.why = "unknown_tool"


\* C12: when a reply has the Action and Args markers but its Args text is
\* not valid JSON, run ends that iteration with the failure result: the
\* parse is not retried, the model is not consulted again and no tool is
\* invoked with those args.
C12_BadArgsFailsAtOnce ==
    (ProposesAction(response) /\ ArgsText(response) # <<"{}">>)
        => FailsInSameIteration({"bad_args", "unknown_tool"})

\* a registered tool with args that do not parse, after one good iteration
C12_Witness ==
    /\ RunReturned
    /\ replies = 2
    /\ ProposesAction(response)
    /\ ToolName(response) = <<"get_weather">>
    /\ ArgsText(response) = <<"w">>
    /\ runResult.why = "bad_args"

\* C13: when a reply contains no "Final:" and lacks "Action:" or "Args:",
\* run goes straight to the failure result (response missing required
\* markers) in that iteration, without a further model call.
C13_MissingMarkersFailsAtOnce ==
    (/\ response # <<>>
     /\ ~Contains(response, "Final:")
     /\ (~Contains(response, "Action:") \/ ~Contains(response, "Args:")))
        => FailsInSameIteration({"missing_markers"})

\* a reply that has "Action:" and a tool name but no "Args:"
C13_Witness ==
    /\ RunReturned
    /\ replies = 1
    /\ Contains(response, "Action:")
    /\ Contains(response, "get_weather")
    /\ ~Contains(response, "Args:")
    /\ runResult.why = "missing_markers"


\* a valid Action/Args pair: a registered tool and args that parse
ProposesValidAction(r) ==
    /\ ProposesAction(r)
    /\ ToolName(r) = <<"get_weather">>
    /\ ArgsText(r) = <<"{}">>

\* The run has ended and the model never emitted "Final:" nor a valid
\* Action/Args pair: the reply that ended the run is neither, and no reply
\* before it dispatched a tool.
EndedWithoutDirective ==
    /\ RunReturned
    /\ toolCalls = 0
    /\ ~Contains(response, "Final:")
    /\ ~ProposesValidAction(response)

\* C14 as stated: a model that never emits "Final:" or a valid Action/Args
\* pair makes run end at exactly max_iterations iterations (5 model replies
\* evaluated) with the iteration-budget-exhausted failure.
C14_NoDirectiveRunsToBudget ==
    EndedWithoutDirective =>
        /\ replies = 5
        /\ runResult.why = "budget_exhausted"

\* C14 amended: a model that never emits "Final:" or a valid Action/Args
\* pair makes run end after exactly one iteration (one model reply
\* evaluated) with the failure result of that reply: missing markers,
\* unknown tool or args that do not parse.
C14_NoDirectiveFailsAtFirstReply ==
    /\ EndedWithoutDirective =>
        /\ replies = 1
        /\ i = 0
        /\ runResult.kind = "return"
        /\ runResult.text = <<"Sorry, I couldn't complete the task.">>
        /\ runResult.why \in {"missing_markers", "unknown_tool", "bad_args"}
    /\ (toolCalls = 0 /\ rpc = "await_model" => replies = 0)

\* a first reply of plain words ends the run
C14_Witness ==
    /\ EndedWithoutDirective
    /\ replies = 1
    /\ response = <<"w", " ", "w">>
    /\ runResult.why = "missing_markers"


\* the run ended on a failure path: every end other than a "Final:" reply
RunFailed == RunReturned /\ ~Contains(response, "Final:")

\* C15: on every failure path of run (unknown tool, args not valid JSON, a
\* tool handler raising, missing markers, iteration budget exhausted) run
\* returns the apology string as its result and no exception reaches the
\* caller.
C15_FailureReturnsApology ==
    RunFailed =>
        /\ runResult.kind = "return"
        /\ runResult.text = <<"Sorry, I couldn't complete the task.">>
        /\ runResult.why \in {"unknown_tool", "bad_args", "tool_raised",
                              "missing_markers", "budget_exhausted"}
        /\ (observation = "raise" <=> runResult.why = "tool_raised")

\* the tool handler raised in the third iteration
C15_Witness ==
    /\ RunFailed
    /\ replies = 3
    /\ toolCalls = 3
    /\ observation = "raise"
    /\ runResult.text = <<"Sorry, I couldn't complete the task.">>


\* C16: when a tool returns a graceful error value ({"error": ...}) instead
\* of raising, run treats it as a normal observation: it does not end on it,
\* and it consults the model again if and only if iterations remain (the
\* run ends with the budget-exhausted failure otherwise).
C16_GracefulErrorIsObservation ==
    [][ /\ (rpc = "tool" /\ observation' = "error")
            => (rpc' = "next" /\ runResult' = runResult /\ runResult.kind = "none")
        /\ (rpc = "next" /\ observation = "error")
            => IF replies < 5
                 THEN rpc' = "await_model" /\ runResult' = runResult
                 ELSE rpc' = "done" /\ runResult'.why = "budget_exhausted"
      ]_vars

\* the model is being consulted again after a tool reported an error
C16_Witness ==
    /\ rpc = "parse"
    /\ observation = "error"
    /\ replies = 2
    /\ toolCalls = 1


\* C17: when max_iterations (5) iterations each dispatch a known tool with
\* valid args and no reply contains "Final:", run makes exactly 5 tool
\* invocations and then returns the failure result.
C17_BudgetExhaustedAfterFiveTools ==
    /\ toolCalls <= 5
    /\ toolCalls = 5 =>
        /\ replies = 5
        /\ i = 4
        /\ ProposesValidAction(response)
        /\ rpc \in {"tool", "next", "done"}
        /\ (RunReturned =>
                /\ runResult.kind = "return"
                /\ runResult.text = <<"Sorry, I couldn't complete the task.">>
                /\ runResult.why = IF observation = "raise"
                                     THEN "tool_raised" ELSE "budget_exhausted")
    /\ (RunReturned /\ runResult.why = "budget_exhausted" => toolCalls = 5)

\* five tools dispatched and returned, then the failure result
C17_Witness ==
    /\ RunReturned
    /\ toolCalls = 5
    /\ observation = "value"
    /\ runResult.why = "budget_exhausted"
    /\ runResult.text = <<"Sorry, I couldn't complete the task.">>


---------------------------------------------------------------------------
(* Claims about warm_models and main, checked under SpecWarm *)

\* the gen_once calls in flight: the sequential call of a model while it
\* runs, and every call a worker thread is running
InFlight(n) ==
    (IF first[n] = "running" THEN 1 ELSE 0) + Cardinality(RunningFuts(futs[n]))

RECURSIVE SumInFlight(_)
SumInFlight(S) ==
    IF S = {} THEN 0
    ELSE LET n == CHOOSE x \in S : TRUE
         IN  InFlight(n) + SumInFlight(S \ {n})

TotalInFlight == SumInFlight(ModelNames)

\* C18 as stated: during warm_models, at every moment at most `concurrency`
\* gen_once calls are in flight, for every value of reps and every
\* interleaving of the worker threads.
C18_AtMostConcurrencyInFlight == TotalInFlight <= concurrency

\* C18, amended: at every moment at most max(1, concurrency) gen_once calls
\* are in flight: the sequential first call of a model runs alone whatever
\* concurrency is, the calls of the pool never exceed concurrency, and with
\* concurrency <= 0 no call is ever submitted to a pool.
C18_AtMostPoolWidthInFlight ==
    /\ TotalInFlight <= Max(1, concurrency)
    /\ \A n \in ModelNames :
        /\ Cardinality(RunningFuts(futs[n])) <= concurrency
        /\ first[n] = "running" => RunningFuts(futs[n]) = {}
        /\ concurrency <= 0 => futs[n] = <<>>
    /\ wpc \in {"submit", "collect"} => TotalInFlight <= concurrency

\* the pool is full while a third call waits in its queue
C18_Witness ==
    /\ wpc = "collect"
    /\ concurrency = 2
    /\ Cardinality(RunningFuts(futs[models[mi]])) = 2
    /\ PendingFuts(futs[models[mi]]) # {}


\* how many durations of call k the list t holds
Count(t, k) == Cardinality({j \in 1..Len(t) : t[j] = k})

\* the main thread has left the pool of model n
PoolClosed(n) ==
    /\ futs[n] # <<>>
    /\ ~(wpc \in {"submit", "collect"} /\ models[mi] = n)

\* C19: in the concurrent phase of warm_models a failing call neither
\* cancels nor corrupts the others: every submitted call runs to completion,
\* each call that succeeds adds exactly one duration to timings[m], each
\* call that fails adds none, under every interleaving.
C19_FailureLeavesOthersAlone ==
    \A n \in ModelNames :
        /\ \A k \in 1..Len(futs[n]) :
            /\ futs[n][k] # "cancelled"
            /\ Count(timings[n], k) =
                   IF futs[n][k] = "ok" /\ k \in yielded[n] THEN 1 ELSE 0
        /\ yielded[n] \subseteq DoneFuts(futs[n])
        /\ Len(timings[n]) =
               (IF first[n] = "ok" THEN 1 ELSE 0)
               + Cardinality({k \in yielded[n] : futs[n][k] = "ok"})
        /\ PoolClosed(n) =>
            /\ Len(futs[n]) = remaining
            /\ \A k \in 1..Len(futs[n]) : futs[n][k] \in {"ok", "failed"}
            /\ yielded[n] = 1..Len(futs[n])

\* the first submitted call failed, the two others ran and succeeded, the
\* third before the second
C19_Witness ==
    /\ PoolClosed("m1")
    /\ futs["m1"] = <<"failed", "ok", "ok">>
    /\ timings["m1"] = <<0, 3, 2>>


\* no warm-up call of any model is waiting or running
AllCallsCompleted ==
    \A n \in ModelNames :
        /\ first[n] # "running"
        /\ PendingFuts(futs[n]) \cup RunningFuts(futs[n]) = {}

\* warm_models has returned to main
WarmReturned == wpc \in {"returned", "embed", "summary", "done"}

\* the summary loop has run
SummaryPrinted == \E n \in ModelNames : summary[n] # NoSummary

\* C20: warm_models returns, and main computes the first/median summary,
\* only after every submitted warm-up call of every model has completed
\* (succeeded or failed); no call is still running when the summary is
\* produced.
C20_SummaryAfterAllCalls ==
    /\ WarmReturned =>
        /\ AllCallsCompleted
        /\ \A n \in ModelNames : yielded[n] = 1..Len(futs[n])
    /\ SummaryPrinted =>
        /\ WarmReturned
        /\ AllCallsCompleted
        /\ \A n \in ModelNames : summary[n] = SummaryLine(timings[n])

\* the summary is printed after pools of three calls, one of which failed
C20_Witness ==
    /\ SummaryPrinted
    /\ \A n \in ModelNames :
        /\ Len(futs[n]) = 3
        /\ \E k \in 1..3 : futs[n][k] = "failed"
        /\ summary[n].count = 3


\* a step of a worker thread: a submitted call starts or ends
WorkerStep ==
    \E n \in ModelNames : \E k \in 1..Len(futs[n]) :
        /\ futs[n][k] \in {"pending", "running"}
        /\ futs'[n][k] # futs[n][k]

\* a step of the thread that runs main and warm_models: its position, the
\* state of its own sequential call, the number of futures it has submitted
\* or the set of futures it has been handed changes
MainStep ==
    \/ wpc' # wpc
    \/ first' # first
    \/ yielded' # yielded
    \/ \E n \in ModelNames : Len(futs'[n]) # Len(futs[n])

\* C21: concurrent warm-up calls share no mutable state except the timings
\* collection, and timings is never written by two threads at once: a step
\* of a worker thread changes nothing but the state of its own future, and
\* every append to timings is made by a step of the thread that runs
\* warm_models.
C21_OnlyMainWritesTimings ==
    [][ /\ WorkerStep =>
            /\ ~MainStep
            /\ UNCHANGED <<timings, summary, embed, mi, reps, concurrency>>
            /\ \E n \in ModelNames : \E k \in 1..Len(futs[n]) :
                futs' = [futs EXCEPT ![n][k] = futs'[n][k]]
        /\ timings' # timings =>
            /\ MainStep
            /\ ~WorkerStep
            /\ wpc \in {"first", "collect"}
      ]_vars

\* the main thread has appended a collected duration while a worker thread
\* is still running another call of the same pool
C21_Witness ==
    /\ wpc = "collect"
    /\ RunningFuts(futs[models[mi]]) # {}
    /\ yielded[models[mi]] # {}
    /\ Len(timings[models[mi]]) >= 2


---------------------------------------------------------------------------
(* Further claims about get_weather and geocode_location, under SpecClient *)

\* a 2xx answer whose JSON object has no results member or an empty list
NoResultsAnswer(o) ==
    /\ IsSuccessStatus(o)
    /\ o.body.json = "object"
    /\ o.body.results \in {"absent", "empty_list"}

\* C22: when the geocoding service answers 2xx with an empty or absent
\* results list, geocode_location returns the graceful "No location found"
\* dict after that single attempt: it does not raise and does not retry.
C22_NoResultsReturnsNoLocation ==
    fn = "geocode_location" =>
        \A k \in 1..Len(outcomes) :
            NoResultsAnswer(outcomes[k]) =>
                /\ k = Len(outcomes)
                /\ k = attempt + 1
                /\ Len(sleeps) = k - 1
                /\ pc \in {"close", "check", "done"}
                /\ pc = "done" => result = ReturnNoLocation

\* the second attempt, after a transient status, is answered with an empty
\* results list
C22_Witness ==
    /\ fn = "geocode_location"
    /\ pc = "done"
    /\ Len(outcomes) = 2
    /\ outcomes[2].body.results = "empty_list"
    /\ NoResultsAnswer(outcomes[2])
    /\ result = ReturnNoLocation


---------------------------------------------------------------------------
(* Claims about the calculator tool, checked under SpecCalc *)

CalcReturned == cpc = "done"

\* C23: the calculator tool fails gracefully: for every input expression
\* whose evaluation fails it returns a string containing "Error" and never
\* raises; for every input it returns either "Result: ..." or "Error: ...".
C23_CalculatorNeverRaises ==
    CalcReturned =>
        /\ calcResult.kind = "return"
        /\ calcResult.text \in {"Result: ", "Error: "}
        /\ evalResult.exc # "" => calcResult.text = "Error: "


\* a 2xx answer whose body holds current_weather with a temperature and a
\* weathercode of any JSON type
CarriesWeatherCode(o) ==
    /\ IsSuccessStatus(o)
    /\ o.body.json = "object"
    /\ o.body.current_weather = "object"
    /\ o.body.weathercode # -1
    /\ o.body.temperature # -1

\* C24: for every weather code returned by the service, get_weather's
\* "conditions" is the WEATHER_CODES description when the code is in the
\* table and the sentinel "Unknown" otherwise; an unrecognized code never
\* causes a lookup failure or an error result.
C24_ConditionsFromTableOrUnknown ==
    (/\ fn = "get_weather"
     /\ Returned
     /\ outcomes # <<>>
     /\ CarriesWeatherCode(outcomes[Len(outcomes)]))
    => /\ result.kind = "data"
       /\ result.data.conditions =
            LET code == outcomes[Len(outcomes)].body.weathercode
            IN  IF code \in DOMAIN WEATHER_CODES
                  THEN WEATHER_CODES[code] ELSE "Unknown"


\* the exceptions that reading a body can raise
ParseExceptions ==
    {"JSONDecodeError", "KeyError", "TypeError", "AttributeError", "IndexError"}

\* C25: a response whose status is in TRANSIENT_CODES is never parsed and
\* returned as success data, on any attempt including the final one, where
\* the retry branch is skipped and control falls through to
\* raise_for_status.
C25_TransientNeverParsed ==
    (outcomes # <<>> /\ IsTransientStatus(outcomes[Len(outcomes)])) =>
        /\ exc \notin ParseExceptions
        /\ result.kind \notin {"data", "raise"}
        /\ result.error \notin {"invalid_data", "no_location"}
        /\ Returned =>
            /\ Len(outcomes) = MAX_RETRIES
            /\ result = ReturnExhausted(HttpError(outcomes[Len(outcomes)].status))

\* the final attempt is answered 503 with a body the tool could read
C25_Witness ==
    /\ Returned
    /\ Len(outcomes) = MAX_RETRIES
    /\ outcomes[MAX_RETRIES] = RespOutcome(503, GoodBody(fn))
    /\ result.error = "exhausted"


\* C26: get_weather and geocode_location never sleep after their final
\* attempt nor after an attempt that returns: in every call the number of
\* backoff sleeps equals the number of attempts minus one, so it is at most
\* MAX_RETRIES - 1.
C26_SleepsAreAttemptsMinusOne ==
    /\ Len(sleeps) <= MAX_RETRIES - 1
    /\ Len(sleeps) <= Len(outcomes)
    /\ pc = "sleep" => Len(outcomes) < MAX_RETRIES
    /\ Returned =>
        /\ Len(outcomes) >= 1
        /\ Len(sleeps) = Len(outcomes) - 1

\* two failed attempts, each followed by a sleep, then an attempt that
\* returns data with no sleep after it
C26_Witness ==
    /\ Returned
    /\ result.kind = "data"
    /\ Len(outcomes) = MAX_RETRIES
    /\ Len(sleeps) = MAX_RETRIES - 1
    /\ IsNetworkFailure(outcomes[1])
    /\ IsTransientStatus(outcomes[2])


\* the sessions made by the call that have not been closed
OpenSessions == {k \in 1..Len(sessions) : ~sessions[k].closed}

\* C27: every session opened by an attempt of get_weather or
\* geocode_location is closed before the next attempt starts and before the
\* call returns, whatever the attempt's outcome (response received or
\* network exception); at most one session is open at any time.
C27_SessionsClosed ==
    /\ Cardinality(OpenSessions) <= 1
    /\ pc = "try" => OpenSessions = {}
    /\ Returned => OpenSessions = {}


\* an attempt that failed: a network error or an HTTP error status
IsFailure(o) == IsNetworkFailure(o) \/ (o.net = "" /\ o.status >= 400)

---------------------------------------------------------------------------
(* Further claims about warm_models and main, checked under SpecWarm *)

\* the position of model n in the list models
ModelIndex(n) == CHOOSE k \in 1..Len(models) : models[k] = n

\* every call made for model n, sequential or submitted, has completed
CallsCompleted(n) ==
    /\ first[n] \in {"ok", "failed"}
    /\ PendingFuts(futs[n]) \cup RunningFuts(futs[n]) = {}
    /\ yielded[n] = 1..Len(futs[n])

---------------------------------------------------------------------------
(* Claims about currency_converter, checked under SpecConv *)

ConvReturned == vpc = "done"

\* the response succeeds and its rates contain the target currency
HasTarget(o) ==
    o.net = "" /\ ~RaisesForStatus(o.status) /\ o.body = "rates" /\ o.rate # -1

\* the response succeeds and its rates hold a number for the target currency
HasNumericRate(o) == HasTarget(o) /\ o.rate >= 0

\* the requests that satisfy a test, by position
AnswersWithTarget == {k \in 1..Len(fetched) : HasTarget(fetched[k].answer)}
AnswersWithRate == {k \in 1..Len(fetched) : HasNumericRate(fetched[k].answer)}

\* the URLs are requested in list order, one request each, and nothing
\* escapes as an exception
RequestsInListOrder ==
    /\ Len(fetched) <= Len(urls)
    /\ \A k \in 1..Len(fetched) : fetched[k].url = k
    /\ convResult.kind # "raise"

\* C31 as stated: currency_converter tries its rate URLs in list order and
\* returns the conversion from the first URL whose response succeeds and
\* contains the target currency; the second URL is requested only after the
\* first failed or lacked the target; when no URL yields the rate it returns
\* the 'Currency conversion failed' string; no network, HTTP or parsing
\* error escapes as an exception.
C31_FirstUrlWithTarget ==
    /\ RequestsInListOrder
    /\ \A k \in AnswersWithTarget : k = Len(fetched)
    /\ ConvReturned =>
        IF AnswersWithTarget # {}
          THEN convResult =
                 ReturnConversion(Len(fetched), amount,
                                  fetched[Len(fetched)].answer.rate)
          ELSE /\ convResult = ReturnConversionFailed
               /\ Len(fetched) = Len(urls)

\* C31, amended: currency_converter tries its rate URLs in list order and
\* returns the conversion from the first URL whose response succeeds and
\* holds a numeric rate for the target currency; the second URL is
\* requested only after the first failed, lacked the target or held a value
\* for it that is not a number; when no URL yields a numeric rate it returns
\* the 'Currency conversion failed' string; no network, HTTP or parsing
\* error escapes as an exception.
C31_FirstUrlWithNumericRate ==
    /\ RequestsInListOrder
    /\ \A k \in AnswersWithRate : k = Len(fetched)
    /\ ConvReturned =>
        IF AnswersWithRate # {}
          THEN convResult =
                 ReturnConversion(Len(fetched), amount,
                                  fetched[Len(fetched)].answer.rate)
          ELSE /\ convResult = ReturnConversionFailed
               /\ Len(fetched) = Len(urls)

\* the first URL holds null for the target, the second holds the rate 3
C31_Witness ==
    /\ ConvReturned
    /\ amount = 2
    /\ Len(fetched) = 2
    /\ fetched[1].answer = ConvAnswer("", 200, "rates", -2)
    /\ convResult = ReturnConversion(2, 2, 3)

---------------------------------------------------------------------------
(* C32 *)

AgentReturned == apc = "done"

LastOutcome == a_outcomes[Len(a_outcomes)]

\* the sleeps made so far: one per attempt that failed and was handled
SleepsDue ==
    IF apc \in {"except", "sleep", "done"}
      THEN Len(a_outcomes) - 1
      ELSE Len(a_outcomes)

\* C32: agent1.get_weather makes at most 3 attempts.  An attempt other than
\* the last one made so far raised Timeout or ConnectionError and was
\* followed by one sleep of 2 seconds and by the next attempt; a Timeout or
\* ConnectionError ends the call only on attempt 3, where it is re-raised
\* without a sleep; any other exception leaves the call from the attempt
\* where it was raised, with no sleep and no further attempt.
C32_ThreeAttemptsThenReraise ==
    /\ Len(a_outcomes) <= 3
    /\ \A k \in 1..(Len(a_outcomes) - 1) : AgentCatches(a_outcomes[k])
    /\ Len(a_sleeps) = SleepsDue
    /\ \A k \in 1..Len(a_sleeps) : a_sleeps[k] = 2
    /\ AgentReturned =>
        /\ Len(a_outcomes) >= 1
        /\ IF LastOutcome = "ok"
             THEN a_result = AgentReturnData
             ELSE a_result = AgentRaise(LastOutcome)
        /\ AgentCatches(LastOutcome) => Len(a_outcomes) = 3

\* two handled failures, each followed by a sleep, and the third re-raised
C32_Witness ==
    /\ AgentReturned
    /\ a_outcomes = <<"Timeout", "ConnectionError", "Timeout">>
    /\ a_sleeps = <<2, 2>>
    /\ a_result = AgentRaise("Timeout")

---------------------------------------------------------------------------
(* C33 *)

\* no gen_once and no embed_once request has been issued
NoWarmupCallIssued ==
    /\ \A n \in ModelNames : first[n] = "none" /\ futs[n] = <<>>
    /\ embed = "none"

\* main has left through `raise SystemExit`
ExitedUnreachable == wpc = "exit"

\* C33: when ping fails main exits with SystemExit and that is all it does:
\* no gen_once or embed_once request has been issued, nothing is summarised
\* and no step follows.  When the optional embedding warm-up fails main goes
\* on to the summary: a failed embedding is found only where the summary is
\* the next step or has been produced, and main ends normally only with the
\* summary of every model produced from its timings.
C33_UnreachableExitsEmbedFailureSummarises ==
    /\ ExitedUnreachable =>
        /\ NoWarmupCallIssued
        /\ ~SummaryPrinted
        /\ \A n \in ModelNames : timings[n] = <<>>
        /\ ~ENABLED WarmNext
    /\ embed = "failed" =>
        /\ wpc \in {"summary", "done"}
        /\ wpc = "summary" => ENABLED Summary
    /\ wpc = "done" =>
        \A n \in ModelNames : summary[n] = SummaryLine(timings[n])

\* the embedding warm-up failed and the summary was produced all the same
C33_Witness ==
    /\ wpc = "done"
    /\ embed = "failed"
    /\ \A n \in ModelNames : summary[n] = SummaryLine(timings[n])
    /\ \E n \in ModelNames : timings[n] # <<>>

====
